---- MODULE Spec2Model ----
(***************************************************************************)
(* A model of the styling and segment-composition engine of luxor:         *)
(*   - Style and Style::combine                (src/style.rs)              *)
(*   - Text, its spans and Text::to_segments   (src/text.rs)               *)
(*   - the markup parser                       (src/markup.rs)             *)
(* Strings are sequences of one-character strings; an Option<T> is a       *)
(* sequence of length at most one (None is <<>>, Some(v) is <<v>>).        *)
(***************************************************************************)
EXTENDS Integers, Sequences, FiniteSets, TLC

VARIABLES
    text,          \* the Text object under operation
    last,          \* the last operation: of Text, its result and the offset append_text
                   \* used; of render, the step and the number of tags it closed
    by_start,      \* history: the spans pushed so far, by start, then by order of insertion
    sa, sb, sc,    \* three Style values, the operands of combine
    combined,      \* the results of the combine calls on sa, sb, sc
    items,         \* render: the pieces the markup string was written from
    markup,        \* render: the markup string
    pc,            \* render: position in the function
    tokens,        \* render: the tokens not yet processed
    text_content,  \* render: the plain text built so far
    spans,         \* render: the spans emitted so far
    style_stack,   \* render: the open tags
    result,        \* render: the returned Result<Text>
    input,         \* a call of a function on strings or colours: its argument
    output         \* the value the call returned

textVars == <<text, last, by_start>>
styleVars == <<sa, sb, sc, combined>>
pureVars == <<input, output>>
markupVars == <<items, markup, pc, tokens, text_content, spans, style_stack, result>>
vars == <<text, last, by_start, sa, sb, sc, combined,
          items, markup, pc, tokens, text_content, spans, style_stack, result,
          input, output>>

-----------------------------------------------------------------------------
(* Bounds of the model *)

\* longest Text content, in characters
MaxLen == 3
\* most spans a Text holds
MaxSpans == 2

-----------------------------------------------------------------------------
(* Option<T> *)

None == <<>>
Some(v) == <<v>>
is_some(o) == o # None
is_none(o) == o = None

\* Option::or: self if it is Some, else the argument
or(self, optb) == IF is_some(self) THEN self ELSE optb
\* Option::xor: Some if exactly one of the two is Some, else None
xor(self, optb) ==
    IF is_some(self) /\ is_none(optb) THEN self
    ELSE IF is_none(self) /\ is_some(optb) THEN optb
    ELSE None

Min(x, y) == IF x <= y THEN x ELSE y

-----------------------------------------------------------------------------
(* Characters: the number of bytes of a character in UTF-8 *)

\* "é" is a letter of 2 bytes; "U+4E2D" stands for a wide character of
\* 3 bytes and "U+0301" for the combining acute accent, 2 bytes
len_utf8(ch) ==
    IF ch = "é" \/ ch = "U+0301" THEN 2 ELSE IF ch = "U+4E2D" THEN 3 ELSE 1

RECURSIVE byte_len(_)
\* str::len: the length of a string in bytes
byte_len(s) == IF s = <<>> THEN 0 ELSE len_utf8(Head(s)) + byte_len(Tail(s))

\* str.chars().count()
chars_count(s) == Len(s)

-----------------------------------------------------------------------------
(* Color *)

Color_Default == [kind |-> "Default"]
Color_Standard(name) == [kind |-> "Standard", name |-> name]
Color_EightBit(index) == [kind |-> "EightBit", index |-> index]
Color_rgb(r, g, b) == [kind |-> "TrueColor", r |-> r, g |-> g, b |-> b]

-----------------------------------------------------------------------------
(* Style *)

StyleFields == {"color", "background", "bold", "italic", "underline",
                "strikethrough", "dim", "reverse", "blink", "hidden"}

Style_new ==
    [color |-> None, background |-> None, bold |-> None, italic |-> None,
     underline |-> None, strikethrough |-> None, dim |-> None,
     reverse |-> None, blink |-> None, hidden |-> None]

\* a mutant of combine: dim is merged with Option::xor instead of Option::or
combine_dim_xor(self, other) ==
    [color |-> or(other.color, self.color),
     background |-> or(other.background, self.background),
     bold |-> or(other.bold, self.bold),
     italic |-> or(other.italic, self.italic),
     underline |-> or(other.underline, self.underline),
     strikethrough |-> or(other.strikethrough, self.strikethrough),
     dim |-> xor(other.dim, self.dim),
     reverse |-> or(other.reverse, self.reverse),
     blink |-> or(other.blink, self.blink),
     hidden |-> or(other.hidden, self.hidden)]

\* a mutant of combine: the boolean toggles are collapsed to plain booleans
combine_collapsed(self, other) ==
    LET flag(x, y) == Some((is_some(x) /\ x[1]) \/ (is_some(y) /\ y[1]))
    IN  [color |-> or(other.color, self.color),
         background |-> or(other.background, self.background),
         bold |-> flag(other.bold, self.bold),
         italic |-> flag(other.italic, self.italic),
         underline |-> flag(other.underline, self.underline),
         strikethrough |-> flag(other.strikethrough, self.strikethrough),
         dim |-> flag(other.dim, self.dim),
         reverse |-> flag(other.reverse, self.reverse),
         blink |-> flag(other.blink, self.blink),
         hidden |-> flag(other.hidden, self.hidden)]

\* Style::combine: every field of other that is Some overrides self's
combine(self, other) ==
    [color |-> or(other.color, self.color),
     background |-> or(other.background, self.background),
     bold |-> or(other.bold, self.bold),
     italic |-> or(other.italic, self.italic),
     underline |-> or(other.underline, self.underline),
     strikethrough |-> or(other.strikethrough, self.strikethrough),
     dim |-> or(other.dim, self.dim),
     reverse |-> or(other.reverse, self.reverse),
     blink |-> or(other.blink, self.blink),
     hidden |-> or(other.hidden, self.hidden)]

-----------------------------------------------------------------------------
(* Span, Segment *)

Span_new(start, end, style) == [start |-> start, end |-> end, style |-> style]

\* Span::is_empty
Span_is_empty(span) == span.end <= span.start

Segment_new(t, style) == [text |-> t, style |-> style, control |-> None]

-----------------------------------------------------------------------------
(* Text *)

Text_new(content) == [content |-> content, base_style |-> Style_new, spans |-> <<>>]

\* Text::with_style, Text::set_style
set_style(t, style) == [t EXCEPT !.base_style = style]

\* Text::len: the length in characters
Text_len(t) == chars_count(t.content)

RECURSIVE insert_by_start_unstable(_, _)
\* a mutant of insert_by_start: the span goes in front of the elements of
\* equal key (a sort that is not stable)
insert_by_start_unstable(sorted, span) ==
    IF sorted = <<>> THEN <<span>>
    ELSE IF Head(sorted).start < span.start
         THEN <<Head(sorted)>> \o insert_by_start_unstable(Tail(sorted), span)
         ELSE <<span>> \o sorted

RECURSIVE insert_by_start(_, _)
\* one step of the stable sort: span goes behind every element whose key is
\* not greater than its own
insert_by_start(sorted, span) ==
    IF sorted = <<>> THEN <<span>>
    ELSE IF Head(sorted).start <= span.start
         THEN <<Head(sorted)>> \o insert_by_start(Tail(sorted), span)
         ELSE <<span>> \o sorted

RECURSIVE sort_by_start(_)
\* spans.sort_by_key(|s| s.start): a stable sort
sort_by_start(s) ==
    IF s = <<>> THEN <<>>
    ELSE insert_by_start(sort_by_start(SubSeq(s, 1, Len(s) - 1)), s[Len(s)])

Ok(t) == [ok |-> TRUE, text |-> t]
Err(kind, t) == [ok |-> FALSE, err |-> kind, text |-> t]

\* a mutant of stylize_range: the end of the range is not checked against
\* the length of the text
stylize_range_unchecked(t, start, end, style) ==
    IF start > end THEN Err("InvalidRange", t)
    ELSE Ok([t EXCEPT !.spans = sort_by_start(Append(t.spans, Span_new(start, end, style)))])

\* Text::stylize_range; the text field of the result is the Text afterwards
stylize_range(t, start, end, style) ==
    IF start > end THEN Err("InvalidRange", t)
    ELSE IF end > Text_len(t) THEN Err("InvalidRange", t)
    ELSE Ok([t EXCEPT !.spans = sort_by_start(Append(t.spans, Span_new(start, end, style)))])

\* Text::append
append(t, s) == [t EXCEPT !.content = t.content \o s]

\* the spans of other, each moved by offset
adjusted_spans(other, offset) ==
    [i \in 1..Len(other.spans) |->
        Span_new(other.spans[i].start + offset, other.spans[i].end + offset,
                 other.spans[i].style)]

\* a mutant of append_text: the offset is the byte length of the receiver
append_text_bytes(t, other) ==
    [t EXCEPT !.content = t.content \o other.content,
              !.spans = sort_by_start(t.spans \o adjusted_spans(other, byte_len(t.content)))]

\* Text::append_text
append_text(t, other) ==
    [t EXCEPT !.content = t.content \o other.content,
              !.spans = sort_by_start(t.spans \o adjusted_spans(other, Text_len(t)))]

\* Text::style_at
style_at(t, position) ==
    LET F[i \in 0..Len(t.spans)] ==
            IF i = 0 THEN t.base_style
            ELSE IF position >= t.spans[i].start /\ position < t.spans[i].end
                 THEN combine(F[i - 1], t.spans[i].style)
                 ELSE F[i - 1]
    IN  F[Len(t.spans)]

\* a mutant of get_char_slice: take(end) instead of take(end - start)
get_char_slice_take_end(t, start, end) ==
    SubSeq(t.content, start + 1, Min(start + end, Len(t.content)))

\* Text::get_char_slice: chars().skip(start).take(end - start)
get_char_slice(t, start, end) ==
    SubSeq(t.content, start + 1, Min(end, Len(t.content)))

\* Text::compute_style_for_spans
compute_style_for_spans(t, active) ==
    LET F[i \in 0..Len(active)] ==
            IF i = 0 THEN t.base_style ELSE combine(F[i - 1], active[i].style)
    IN  F[Len(active)]

\* the start and the end event of every span, in the order of the spans
span_events(s) ==
    [k \in 1..(2 * Len(s)) |->
        IF k % 2 = 1
        THEN [position |-> s[(k + 1) \div 2].start, is_start |-> TRUE, span |-> s[(k + 1) \div 2]]
        ELSE [position |-> s[k \div 2].end, is_start |-> FALSE, span |-> s[k \div 2]]]

\* the order of the keys (position, is_start), false before true
event_key_le(x, y) ==
    \/ x.position < y.position
    \/ x.position = y.position /\ (~x.is_start \/ y.is_start)

RECURSIVE insert_event(_, _)
insert_event(sorted, e) ==
    IF sorted = <<>> THEN <<e>>
    ELSE IF event_key_le(Head(sorted), e)
         THEN <<Head(sorted)>> \o insert_event(Tail(sorted), e)
         ELSE <<e>> \o sorted

RECURSIVE sort_events(_)
\* events.sort_by_key(|(pos, is_start, _)| (*pos, *is_start)): a stable sort
sort_events(ev) ==
    IF ev = <<>> THEN <<>>
    ELSE insert_event(sort_events(SubSeq(ev, 1, Len(ev) - 1)), ev[Len(ev)])

\* active_spans.retain(|s| s != &span): Span derives PartialEq, so every
\* active span equal in value to span is dropped
retain_ne(active, span) == SelectSeq(active, LAMBDA s : s # span)

RECURSIVE sweep_starts_only(_, _, _)
\* a mutant of sweep: text is cut where a span starts, not where one ends
sweep_starts_only(t, events, st) ==
    IF events = <<>> THEN st
    ELSE LET e == Head(events)
             emit == e.position > st.current_position /\ e.is_start
             text_slice == get_char_slice(t, st.current_position, e.position)
             style == compute_style_for_spans(t, st.active_spans)
             segments1 == IF emit /\ text_slice # <<>>
                          THEN Append(st.segments, Segment_new(text_slice, style))
                          ELSE st.segments
             position1 == IF emit THEN e.position ELSE st.current_position
             active1 == IF e.is_start THEN Append(st.active_spans, e.span)
                        ELSE retain_ne(st.active_spans, e.span)
         IN  sweep_starts_only(t, Tail(events),
                               [segments |-> segments1, current_position |-> position1,
                                active_spans |-> active1])

RECURSIVE sweep(_, _, _)
\* the loop of to_segments over the sorted events
sweep(t, events, st) ==
    IF events = <<>> THEN st
    ELSE LET e == Head(events)
             emit == e.position > st.current_position
             text_slice == get_char_slice(t, st.current_position, e.position)
             style == compute_style_for_spans(t, st.active_spans)
             segments1 == IF emit /\ text_slice # <<>>
                          THEN Append(st.segments, Segment_new(text_slice, style))
                          ELSE st.segments
             position1 == IF emit THEN e.position ELSE st.current_position
             active1 == IF e.is_start THEN Append(st.active_spans, e.span)
                        ELSE retain_ne(st.active_spans, e.span)
         IN  sweep(t, Tail(events),
                   [segments |-> segments1, current_position |-> position1,
                    active_spans |-> active1])

\* a mutant of to_segments: the text after the last event is pushed without
\* a look at its length
to_segments_always_tail(t) ==
    IF t.content = <<>> THEN <<Segment_new(<<>>, t.base_style)>>
    ELSE IF t.spans = <<>> THEN <<Segment_new(t.content, t.base_style)>>
    ELSE LET st == sweep(t, sort_events(span_events(t.spans)),
                         [segments |-> <<>>, current_position |-> 0, active_spans |-> <<>>])
             text_slice == get_char_slice(t, st.current_position, Text_len(t))
             style == compute_style_for_spans(t, st.active_spans)
         IN  Append(st.segments, Segment_new(text_slice, style))

\* Text::to_segments
to_segments(t) ==
    IF t.content = <<>> THEN <<Segment_new(<<>>, t.base_style)>>
    ELSE IF t.spans = <<>> THEN <<Segment_new(t.content, t.base_style)>>
    ELSE LET st == sweep(t, sort_events(span_events(t.spans)),
                         [segments |-> <<>>, current_position |-> 0, active_spans |-> <<>>])
             text_slice == get_char_slice(t, st.current_position, Text_len(t))
             style == compute_style_for_spans(t, st.active_spans)
         IN  IF st.current_position < Text_len(t) /\ text_slice # <<>>
             THEN Append(st.segments, Segment_new(text_slice, style))
             ELSE st.segments

-----------------------------------------------------------------------------
(* The inputs of the Text operations.  No operation of Text reads the value *)
(* of a character, only its position, so the content of a Text is taken     *)
(* from one word whose neighbouring characters differ: a character that is  *)
(* lost, repeated or moved shows.                                           *)

Alphabet == <<"a", "é", "b">>
CharAt(i) == Alphabet[((i - 1) % Len(Alphabet)) + 1]
\* the n characters of the word that follow the first `from` ones
Word(from, n) == [k \in 1..n |-> CharAt(from + k)]

StyleBoldRed ==
    [Style_new EXCEPT !.bold = Some(TRUE), !.color = Some(Color_Standard("Red"))]
StyleNotBoldItalic ==
    [Style_new EXCEPT !.bold = Some(FALSE), !.italic = Some(TRUE)]
StyleBoldOnBlue ==
    [Style_new EXCEPT !.bold = Some(TRUE), !.background = Some(Color_Standard("Blue"))]

SpanStyles == {StyleBoldRed, StyleNotBoldItalic}
BaseStyles == {Style_new, StyleBoldOnBlue}

\* the Texts that stylize_range makes of the Texts of a set
Stylized(texts) ==
    UNION {{stylize_range(t, r[1], r[2], style).text :
               r \in (0..Len(t.content)) \X (0..Len(t.content)), style \in SpanStyles} :
           t \in texts}

\* the Texts of at most n characters and at most m spans handed to
\* append_text: a new Text, and what one or two stylize_range calls make of it
OtherTexts(from, n, m) ==
    LET fresh == {Text_new(Word(from, k)) : k \in 0..n}
        once == IF m >= 1 THEN Stylized(fresh) ELSE {}
        twice == IF m >= 2 THEN Stylized(once) ELSE {}
    IN  fresh \cup once \cup twice

-----------------------------------------------------------------------------
(* The operations on a Text *)

idleStyle == sa = None /\ sb = None /\ sc = None /\ combined = None
idleMarkup ==
    /\ items = <<>> /\ markup = <<>> /\ pc = "idle" /\ tokens = <<>> /\ text_content = <<>>
    /\ spans = <<>> /\ style_stack = <<>> /\ result = None
idleText == text = None /\ last = None /\ by_start = <<>>
idlePure == input = None /\ output = None

\* history: span joins the spans ordered by start; among spans of equal
\* start it is the latest
Pushed(ordered, span) ==
    LET k == Cardinality({i \in 1..Len(ordered) : ordered[i].start <= span.start})
    IN  SubSeq(ordered, 1, k) \o <<span>> \o SubSeq(ordered, k + 1, Len(ordered))

RECURSIVE PushedAll(_, _, _)
\* history: the spans of appended, each moved by offset, pushed one by one
PushedAll(ordered, appended, offset) ==
    IF appended = <<>> THEN ordered
    ELSE PushedAll(Pushed(ordered, [start |-> Head(appended).start + offset,
                                    end |-> Head(appended).end + offset,
                                    style |-> Head(appended).style]),
                   Tail(appended), offset)

\* Text::new(s).with_style(style)
Init ==
    /\ \E n \in 0..MaxLen, style \in BaseStyles :
          text = set_style(Text_new(Word(0, n)), style)
    /\ last = [op |-> "new", result |-> "Ok", offset |-> 0]
    /\ by_start = <<>>
    /\ idleStyle
    /\ idleMarkup
    /\ idlePure

AppendStr(s) ==
    /\ Len(text.content) + Len(s) <= MaxLen
    /\ text' = append(text, s)
    /\ last' = [op |-> "append", result |-> "Ok", offset |-> 0]
    /\ UNCHANGED <<by_start, styleVars, markupVars, pureVars>>

AppendText(other) ==
    /\ Len(text.content) + Len(other.content) <= MaxLen
    /\ Len(text.spans) + Len(other.spans) <= MaxSpans
    /\ text' = append_text(text, other)
    /\ last' = [op |-> "append_text", result |-> "Ok", offset |-> Len(text.content)]
    /\ by_start' = PushedAll(by_start, other.spans, Len(text.content))
    /\ UNCHANGED <<styleVars, markupVars, pureVars>>

StylizeRange(start, end, style) ==
    LET r == stylize_range(text, start, end, style)
    IN  /\ Len(text.spans) < MaxSpans
        /\ text' = r.text
        /\ last' = [op |-> "stylize_range", result |-> IF r.ok THEN "Ok" ELSE r.err, offset |-> 0]
        /\ by_start' = IF r.ok
                       THEN Pushed(by_start, [start |-> start, end |-> end, style |-> style])
                       ELSE by_start
        /\ UNCHANGED <<styleVars, markupVars, pureVars>>

Next ==
    \/ \E k \in 0..1 : AppendStr(Word(Len(text.content), k))
    \/ \E other \in OtherTexts(Len(text.content), MaxLen - Len(text.content),
                               MaxSpans - Len(text.spans)) :
          AppendText(other)
    \/ \E start, end \in 0..(Len(text.content) + 1), style \in SpanStyles :
          StylizeRange(start, end, style)

Spec == Init /\ [][Next]_vars

-----------------------------------------------------------------------------
(* Properties of Text *)

RECURSIVE SegmentsText(_)
\* the texts of the segments, one after the other
SegmentsText(segments) ==
    IF segments = <<>> THEN <<>>
    ELSE Head(segments).text \o SegmentsText(Tail(segments))

RECURSIVE CharStyles(_)
\* the style of every character of the segments, one after the other
CharStyles(segments) ==
    IF segments = <<>> THEN <<>>
    ELSE [i \in 1..Len(Head(segments).text) |-> Head(segments).style]
         \o CharStyles(Tail(segments))

NonDegenerate(t) == \A i \in 1..Len(t.spans) : t.spans[i].start < t.spans[i].end

\* base_style combined with every span of `ordered` that covers position p,
\* in the order of `ordered`
CoveringStyle(base, ordered, p) ==
    LET F[i \in 0..Len(ordered)] ==
            IF i = 0 THEN base
            ELSE IF ordered[i].start <= p /\ p < ordered[i].end
                 THEN combine(F[i - 1], ordered[i].style)
                 ELSE F[i - 1]
    IN  F[Len(ordered)]

\* how many times span occurs in the sequence s
Count(s, span) == Cardinality({i \in 1..Len(s) : s[i] = span})

\* C1: the texts of the segments of to_segments, concatenated in order, are
\* plain() exactly, whatever the content, the base style and the spans
C1_RoundTrip == SegmentsText(to_segments(text)) = text.content

\* two spans overlap without one holding the other, and three segments come out
C1_Witness ==
    /\ Len(to_segments(text)) = 3
    /\ \E i, j \in 1..Len(text.spans) :
          /\ text.spans[i].start < text.spans[j].start
          /\ text.spans[j].start < text.spans[i].end
          /\ text.spans[i].end < text.spans[j].end

\* C2: when every span has start < end, the style of the segment holding
\* character p is base_style combined with the spans covering p, by start and
\* then by order of insertion, and it is the style style_at(p) returns
C2_SegmentStyle ==
    NonDegenerate(text) =>
        LET styles == CharStyles(to_segments(text))
        IN  /\ Len(styles) = Len(text.content)
            /\ \A p \in 0..(Len(text.content) - 1) :
                  /\ styles[p + 1] = CoveringStyle(text.base_style, by_start, p)
                  /\ styles[p + 1] = style_at(text, p)

\* two spans of equal start and conflicting styles cover one character of a
\* Text whose base style sets the attribute too
C2_Witness ==
    /\ NonDegenerate(text)
    /\ text.base_style = StyleBoldOnBlue
    /\ \E i, j \in 1..Len(text.spans) :
          /\ i < j
          /\ text.spans[i].start = text.spans[j].start
          /\ text.spans[i].style = StyleBoldRed
          /\ text.spans[j].style = StyleNotBoldItalic
          /\ style_at(text, text.spans[i].start).bold = Some(FALSE)
          /\ style_at(text, text.spans[i].start).color = Some(Color_Standard("Red"))

\* C3: a stylize_range(p..p, s) call leaves the result of to_segments as it was
C3_DegenerateNoEffect ==
    [][\A p \in 0..MaxLen, style \in SpanStyles :
          StylizeRange(p, p, style) => to_segments(text') = to_segments(text)]_vars

\* C4: stylize_range fails with InvalidRange exactly when start > end or
\* end > the character count; a failed call leaves the Text as it was, a
\* successful call adds the span (start, end, style) and nothing else
C4_RangeValidation ==
    \A start, end \in 0..(Len(text.content) + 1), style \in SpanStyles :
        LET r == stylize_range(text, start, end, style)
            failed == ~r.ok /\ r.err = "InvalidRange"
        IN  /\ failed <=> (start > end \/ end > Len(text.content))
            /\ failed \/ r.ok
            /\ failed => r.text = text
            /\ r.ok =>
                  /\ r.text.content = text.content
                  /\ r.text.base_style = text.base_style
                  /\ Len(r.text.spans) = Len(text.spans) + 1
                  /\ \E i \in 1..Len(r.text.spans) :
                        /\ r.text.spans[i] = [start |-> start, end |-> end, style |-> style]
                        /\ SubSeq(r.text.spans, 1, i - 1)
                              \o SubSeq(r.text.spans, i + 1, Len(r.text.spans)) = text.spans

\* a call has failed on a Text that an earlier call gave a span
C4_Witness ==
    /\ last.op = "stylize_range"
    /\ last.result = "InvalidRange"
    /\ Len(text.spans) >= 1

\* C5: every span has start <= end <= the character count of the content,
\* and the spans are the spans pushed so far, those of an appended Text moved
\* by the character count the receiver had
C5_SpansInBounds ==
    /\ \A i \in 1..Len(text.spans) :
          /\ text.spans[i].start <= text.spans[i].end
          /\ text.spans[i].end <= Len(text.content)
    /\ Len(text.spans) = Len(by_start)
    /\ \A i \in 1..Len(by_start) : Count(text.spans, by_start[i]) = Count(by_start, by_start[i])

\* append_text has moved a span of the appended Text by the two or more
\* characters of a receiver that holds a two-byte character and a span
C5_Witness ==
    /\ last.op = "append_text"
    /\ last.offset >= 2
    /\ \E i, j \in 1..Len(text.spans) :
          /\ text.spans[i].end <= last.offset
          /\ text.spans[j].start >= last.offset
          /\ text.spans[j].end > last.offset

-----------------------------------------------------------------------------
(* Style::combine on three styles *)

Colors ==
    {Color_Default, Color_Standard("Red"), Color_Standard("Blue"),
     Color_EightBit(200), Color_rgb(255, 128, 64)}

ToggleFields == StyleFields \ {"color", "background"}

\* the styles that set one field, to any of its values
OneFieldStyles ==
    {[Style_new EXCEPT ![f] = Some(v)] : f \in ToggleFields, v \in BOOLEAN} \cup
    {[Style_new EXCEPT ![f] = Some(col)] : f \in {"color", "background"}, col \in Colors}

\* the styles that set every field
FullStyles ==
    {[f \in StyleFields |->
         IF f \in ToggleFields THEN Some(v)
         ELSE IF f = "color" THEN Some(col) ELSE Some(Color_Standard("Blue"))] :
     v \in BOOLEAN, col \in {Color_Default, Color_rgb(255, 128, 64)}}

StyleUniverse ==
    {Style_new} \cup OneFieldStyles \cup FullStyles
    \cup {StyleBoldRed, StyleNotBoldItalic, StyleBoldOnBlue}

InitStyle ==
    /\ sa \in StyleUniverse /\ sb \in StyleUniverse /\ sc \in StyleUniverse
    /\ combined = None
    /\ idleText
    /\ idleMarkup
    /\ idlePure

\* the combine calls of the tests style_combination_associative and
\* style_combination_identity, and the call with the empty style as receiver
Combine ==
    /\ combined = None
    /\ combined' = Some([left_assoc |-> combine(combine(sa, sb), sc),
                         right_assoc |-> combine(sa, combine(sb, sc)),
                         with_empty |-> combine(sa, Style_new),
                         onto_empty |-> combine(Style_new, sa)])
    /\ UNCHANGED <<sa, sb, sc, textVars, markupVars, pureVars>>

NextStyle == Combine

SpecStyle == InitStyle /\ [][NextStyle]_vars

\* C6: combine is associative: a.combine(b).combine(c) is a.combine(b.combine(c))
C6_CombineAssociative ==
    is_some(combined) => combined[1].left_assoc = combined[1].right_assoc

\* the three styles set one attribute, two of them to different values
C6_Witness ==
    /\ is_some(combined)
    /\ sa.dim = Some(TRUE) /\ sb.dim = Some(FALSE) /\ sc.dim = Some(FALSE)
    /\ sa.color # sc.color /\ is_some(sa.color) /\ is_some(sc.color)
    /\ combined[1].left_assoc.dim = Some(FALSE)

\* C7: the empty style is the right and the left identity of combine, also
\* for a style that sets an attribute to false
C7_CombineIdentity ==
    is_some(combined) =>
        /\ combined[1].with_empty = sa
        /\ combined[1].onto_empty = sa

\* combine has been applied to a style that sets attributes to false
C7_Witness ==
    /\ is_some(combined)
    /\ sa.bold = Some(FALSE) /\ sa.hidden = Some(FALSE)
    /\ is_some(sa.color)
    /\ combined[1].with_empty.bold = Some(FALSE)

-----------------------------------------------------------------------------
(* Strings: the methods of str the parsers use *)

\* a value a parser returns: Ok(value), Err(kind), or a panic of the thread
ResOk(v) == [ok |-> TRUE, value |-> v]
ResErr(kind) == [ok |-> FALSE, err |-> kind]
Panic == ResErr("panic")

is_whitespace(ch) == ch = " "

RECURSIVE trim_start(_)
trim_start(s) ==
    IF s # <<>> /\ is_whitespace(Head(s)) THEN trim_start(Tail(s)) ELSE s

RECURSIVE trim_end(_)
trim_end(s) ==
    IF s # <<>> /\ is_whitespace(s[Len(s)])
    THEN trim_end(SubSeq(s, 1, Len(s) - 1)) ELSE s

\* str::trim
trim(s) == trim_end(trim_start(s))

RECURSIVE trim_start_matches(_, _)
\* str::trim_start_matches(ch): every leading ch is removed
trim_start_matches(s, ch) ==
    IF s # <<>> /\ Head(s) = ch THEN trim_start_matches(Tail(s), ch) ELSE s

starts_with(s, ch) == s # <<>> /\ Head(s) = ch

\* str::find(ch) at or behind index from: the index of the first ch, as a
\* number of characters in front of it; None if there is none
find_from(s, ch, from) ==
    IF \E i \in (from + 1)..Len(s) : s[i] = ch
    THEN Some((CHOOSE i \in (from + 1)..Len(s) :
                  s[i] = ch /\ \A j \in (from + 1)..(i - 1) : s[j] # ch) - 1)
    ELSE None

find(s, ch) == find_from(s, ch, 0)

\* str::contains(ch)
contains(s, ch) == is_some(find(s, ch))

\* &s[from..to], from and to counted in characters
slice(s, from, to) == SubSeq(s, from + 1, to)

RECURSIVE split_whitespace(_)
\* str::split_whitespace
split_whitespace(s) ==
    LET t == trim_start(s)
        n == IF \E i \in 1..Len(t) : is_whitespace(t[i])
             THEN CHOOSE i \in 1..Len(t) :
                      is_whitespace(t[i]) /\ \A j \in 1..(i - 1) : ~is_whitespace(t[j])
             ELSE Len(t) + 1
    IN  IF t = <<>> THEN <<>>
        ELSE <<SubSeq(t, 1, n - 1)>> \o split_whitespace(SubSeq(t, n, Len(t)))

UpperCase == <<"A", "B", "C", "D", "E", "F", "G", "H", "I", "J", "K", "L", "M", "N", "O", "P", "Q", "R", "S", "T", "U", "V", "W", "X", "Y", "Z">>
LowerCase == <<"a", "b", "c", "d", "e", "f", "g", "h", "i", "j", "k", "l", "m", "n", "o", "p", "q", "r", "s", "t", "u", "v", "w", "x", "y", "z">>

char_to_lowercase(ch) ==
    IF \E i \in DOMAIN UpperCase : UpperCase[i] = ch
    THEN LowerCase[CHOOSE i \in DOMAIN UpperCase : UpperCase[i] = ch]
    ELSE ch

\* str::to_lowercase
to_lowercase(s) == [i \in 1..Len(s) |-> char_to_lowercase(s[i])]

\* str::is_char_boundary: byte offset b is the start of a character or the end
is_char_boundary(s, b) == \E k \in 0..Len(s) : byte_len(SubSeq(s, 1, k)) = b

\* &s[a..b] with byte offsets: panics unless both are character boundaries
byte_slice(s, a, b) ==
    IF a <= b /\ is_char_boundary(s, a) /\ is_char_boundary(s, b)
    THEN LET ka == CHOOSE k \in 0..Len(s) : byte_len(SubSeq(s, 1, k)) = a
             kb == CHOOSE k \in 0..Len(s) : byte_len(SubSeq(s, 1, k)) = b
         IN  ResOk(SubSeq(s, ka + 1, kb))
    ELSE Panic

-----------------------------------------------------------------------------
(* Color::from_hex, parse_color_token, Style::parse *)

HexDigits == <<"0", "1", "2", "3", "4", "5", "6", "7", "8", "9", "a", "b", "c", "d", "e", "f">>

\* char::to_digit(16)
to_digit(ch) ==
    LET c == char_to_lowercase(ch)
    IN  IF \E i \in DOMAIN HexDigits : HexDigits[i] = c
        THEN Some((CHOOSE i \in DOMAIN HexDigits : HexDigits[i] = c) - 1)
        ELSE None

RECURSIVE digits_value(_, _)
digits_value(digits, acc) ==
    IF digits = <<>> THEN acc
    ELSE digits_value(Tail(digits), acc * 16 + to_digit(Head(digits))[1])

\* u8::from_str_radix(src, 16): a leading + is accepted, a sign alone is not
u8_from_str_radix(src) ==
    IF src = <<>> THEN ResErr("Empty")
    ELSE IF Head(src) \in {"+", "-"} /\ Len(src) = 1 THEN ResErr("InvalidDigit")
    ELSE LET digits == IF Head(src) = "+" THEN Tail(src) ELSE src
         IN  IF \E i \in DOMAIN digits : is_none(to_digit(digits[i]))
             THEN ResErr("InvalidDigit")
             ELSE IF digits_value(digits, 0) > 255 THEN ResErr("PosOverflow")
             ELSE ResOk(digits_value(digits, 0))

\* one channel of from_hex: the slice of the bytes a..b, doubled for the
\* 3-digit form, read as a number in base 16
hex_channel(hex, a, b, doubled) ==
    LET part == byte_slice(hex, a, b)
    IN  IF ~part.ok THEN part
        ELSE LET v == u8_from_str_radix(IF doubled THEN part.value \o part.value
                                        ELSE part.value)
             IN  IF v.ok THEN v ELSE ResErr("ColorError")

\* Color::from_hex
from_hex(hex_str) ==
    LET hex == trim_start_matches(hex_str, "#")
        n == byte_len(hex)
        w == IF n = 3 THEN 1 ELSE 2
        r == hex_channel(hex, 0, w, n = 3)
        g == hex_channel(hex, w, 2 * w, n = 3)
        b == hex_channel(hex, 2 * w, 3 * w, n = 3)
    IN  IF n \notin {3, 6} THEN ResErr("ColorError")
        ELSE IF ~r.ok THEN r
        ELSE IF ~g.ok THEN g
        ELSE IF ~b.ok THEN b
        ELSE ResOk(Color_rgb(r.value, g.value, b.value))

\* the colour names of parse_color_token
ColorNames ==
    << [token |-> <<"b", "l", "a", "c", "k">>, color |-> "Black"],
       [token |-> <<"r", "e", "d">>, color |-> "Red"],
       [token |-> <<"g", "r", "e", "e", "n">>, color |-> "Green"],
       [token |-> <<"y", "e", "l", "l", "o", "w">>, color |-> "Yellow"],
       [token |-> <<"b", "l", "u", "e">>, color |-> "Blue"],
       [token |-> <<"m", "a", "g", "e", "n", "t", "a">>, color |-> "Magenta"],
       [token |-> <<"c", "y", "a", "n">>, color |-> "Cyan"],
       [token |-> <<"w", "h", "i", "t", "e">>, color |-> "White"],
       [token |-> <<"b", "r", "i", "g", "h", "t", "_", "b", "l", "a", "c", "k">>, color |-> "BrightBlack"],
       [token |-> <<"g", "r", "a", "y">>, color |-> "BrightBlack"],
       [token |-> <<"g", "r", "e", "y">>, color |-> "BrightBlack"],
       [token |-> <<"b", "r", "i", "g", "h", "t", "_", "r", "e", "d">>, color |-> "BrightRed"],
       [token |-> <<"b", "r", "i", "g", "h", "t", "_", "g", "r", "e", "e", "n">>, color |-> "BrightGreen"],
       [token |-> <<"b", "r", "i", "g", "h", "t", "_", "y", "e", "l", "l", "o", "w">>, color |-> "BrightYellow"],
       [token |-> <<"b", "r", "i", "g", "h", "t", "_", "b", "l", "u", "e">>, color |-> "BrightBlue"],
       [token |-> <<"b", "r", "i", "g", "h", "t", "_", "m", "a", "g", "e", "n", "t", "a">>, color |-> "BrightMagenta"],
       [token |-> <<"b", "r", "i", "g", "h", "t", "_", "c", "y", "a", "n">>, color |-> "BrightCyan"],
       [token |-> <<"b", "r", "i", "g", "h", "t", "_", "w", "h", "i", "t", "e">>, color |-> "BrightWhite"] >>

\* parse_color_token
parse_color_token(token) ==
    LET lower == to_lowercase(token)
    IN  IF \E i \in DOMAIN ColorNames : ColorNames[i].token = lower
        THEN ResOk(Color_Standard(
                 ColorNames[CHOOSE i \in DOMAIN ColorNames :
                                ColorNames[i].token = lower].color))
        ELSE IF starts_with(token, "#") \/ byte_len(token) = 3 \/ byte_len(token) = 6
             THEN from_hex(token)
             ELSE ResErr("ColorError")

\* the attribute keywords of Style::parse
Keywords ==
    << [token |-> <<"b", "o", "l", "d">>, field |-> "bold"],
       [token |-> <<"i", "t", "a", "l", "i", "c">>, field |-> "italic"],
       [token |-> <<"u", "n", "d", "e", "r", "l", "i", "n", "e">>, field |-> "underline"],
       [token |-> <<"s", "t", "r", "i", "k", "e", "t", "h", "r", "o", "u", "g", "h">>, field |-> "strikethrough"],
       [token |-> <<"d", "i", "m">>, field |-> "dim"],
       [token |-> <<"r", "e", "v", "e", "r", "s", "e">>, field |-> "reverse"],
       [token |-> <<"b", "l", "i", "n", "k">>, field |-> "blink"],
       [token |-> <<"h", "i", "d", "d", "e", "n">>, field |-> "hidden"] >>

RECURSIVE parse_style_tokens(_, _)
\* the loop of Style::parse over the tokens of the string
parse_style_tokens(style, toks) ==
    IF toks = <<>> THEN ResOk(style)
    ELSE
      LET lower == to_lowercase(Head(toks))
      IN  IF \E i \in DOMAIN Keywords : Keywords[i].token = lower
          THEN LET field == Keywords[CHOOSE i \in DOMAIN Keywords :
                                         Keywords[i].token = lower].field
               IN  parse_style_tokens([style EXCEPT ![field] = Some(TRUE)], Tail(toks))
          ELSE IF lower = <<"o", "n">>
          THEN IF Tail(toks) = <<>> THEN ResErr("StyleError")
               ELSE LET bg == parse_color_token(toks[2])
                    IN  IF bg.ok
                        THEN parse_style_tokens(
                                 [style EXCEPT !.background = Some(bg.value)],
                                 SubSeq(toks, 3, Len(toks)))
                        ELSE bg
          ELSE LET color == parse_color_token(lower)
               IN  IF color.ok
                   THEN parse_style_tokens(
                            IF is_none(style.color)
                            THEN [style EXCEPT !.color = Some(color.value)]
                            ELSE style,
                            Tail(toks))
                   ELSE IF color = Panic THEN Panic
                   ELSE ResErr("StyleError")

\* Style::parse
Style_parse(style_str) == parse_style_tokens(Style_new, split_whitespace(style_str))

-----------------------------------------------------------------------------
(* The markup parser: Tag, parse_tag, parse_tokens *)

Tag_new(name) == [name |-> name, parameters |-> None]
Tag_with_parameters(name, parameters) == [name |-> name, parameters |-> Some(parameters)]

\* Tag::is_closing
is_closing(tag) == starts_with(tag.name, "/")

\* Tag::closing_name
closing_name(tag) == IF is_closing(tag) THEN Tail(tag.name) ELSE tag.name

Token_Text(t) == [kind |-> "Text", text |-> t]
Token_Tag(tag) == [kind |-> "Tag", tag |-> tag]

\* parse_tag: the content of a tag, without the brackets
parse_tag(content) ==
    LET equals_pos == find(content, "=")
    IN  IF is_some(equals_pos)
        THEN Tag_with_parameters(trim(slice(content, 0, equals_pos[1])),
                                 trim(slice(content, equals_pos[1] + 1, Len(content))))
        ELSE Tag_new(trim(content))

\* parse_tokens: the text between current_pos and pos, if there is any,
\* becomes a token
push_text_before(toks, s, current_pos, pos) ==
    IF pos > current_pos THEN Append(toks, Token_Text(slice(s, current_pos, pos)))
    ELSE toks

RECURSIVE scan_tokens(_, _, _, _)
\* the loop of parse_tokens. next is the number of characters the iterator
\* has yielded. Positions are counted in characters: the code counts bytes
\* and slices only at the positions of [ and ] and at the ends of the
\* string, where the two counts name the same place.
scan_tokens(s, next, current_pos, toks) ==
    IF next >= Len(s)
    THEN IF current_pos < Len(s)
         THEN Append(toks, Token_Text(slice(s, current_pos, Len(s))))
         ELSE toks
    ELSE
      LET pos == next
          ch == s[next + 1]
      IN  IF ch # "[" THEN scan_tokens(s, next + 1, current_pos, toks)
          ELSE IF pos + 1 < Len(s) /\ s[pos + 2] = "["
          THEN scan_tokens(s, pos + 2, pos + 2,
                           Append(push_text_before(toks, s, current_pos, pos),
                                  Token_Text(<<"[">>)))
          ELSE
            LET tag_start == pos + 1
                tag_end == find_from(s, "]", tag_start)
            IN  IF is_some(tag_end)
                THEN LET end_pos == tag_end[1]
                         tag_content == slice(s, tag_start, end_pos)
                         before == push_text_before(toks, s, current_pos, pos)
                     IN  scan_tokens(s, end_pos + 1, end_pos + 1,
                                     IF tag_content # <<>>
                                     THEN Append(before, Token_Tag(parse_tag(tag_content)))
                                     ELSE before)
                ELSE scan_tokens(s, Len(s), pos, toks)

\* parse_tokens
parse_tokens(s) == scan_tokens(s, 0, 0, <<>>)

\* markup::escape
escape(s) ==
    LET F[i \in 0..Len(s)] ==
            IF i = 0 THEN <<>>
            ELSE IF s[i] \in {"[", "]"} THEN F[i - 1] \o <<"\\", s[i]>>
            ELSE Append(F[i - 1], s[i])
    IN  F[Len(s)]

-----------------------------------------------------------------------------
(* The markup parser: the steps of render *)

StyleStackEntry(start_pos, tag, style) ==
    [start_pos |-> start_pos, tag |-> tag, style |-> style]

\* the span of a tag that is closed at the end of content
close_entry(entry, content) == Span_new(entry.start_pos, byte_len(content), entry.style)

\* a mutant of find_matching: the search runs from the bottom of the stack
find_matching_first(stack, style_name) ==
    IF \E i \in DOMAIN stack : stack[i].tag.name = style_name
    THEN Some((CHOOSE i \in DOMAIN stack :
                  /\ stack[i].tag.name = style_name
                  /\ \A j \in 1..(i - 1) : stack[j].tag.name # style_name) - 1)
    ELSE None

\* a mutant of find_matching: a closing tag without an opening tag closes
\* the most recent tag
find_matching_or_top(stack, style_name) ==
    IF \E i \in DOMAIN stack : stack[i].tag.name = style_name
    THEN Some((CHOOSE i \in DOMAIN stack :
                  /\ stack[i].tag.name = style_name
                  /\ \A j \in (i + 1)..Len(stack) : stack[j].tag.name # style_name) - 1)
    ELSE Some(IF stack = <<>> THEN 0 ELSE Len(stack) - 1)

\* render, explicit close: the index of the entry nearest to the top whose
\* tag has the name, counted from 0
find_matching(stack, style_name) ==
    IF \E i \in DOMAIN stack : stack[i].tag.name = style_name
    THEN Some((CHOOSE i \in DOMAIN stack :
                  /\ stack[i].tag.name = style_name
                  /\ \A j \in (i + 1)..Len(stack) : stack[j].tag.name # style_name) - 1)
    ELSE None

\* a mutant of pop_back: the entry at the bottom of the stack is taken
pop_back_oldest(stack) == [entry |-> stack[1], rest |-> Tail(stack)]

\* VecDeque::pop_back on a stack that is not empty: the entry taken, and the
\* entries that stay
pop_back(stack) ==
    [entry |-> stack[Len(stack)], rest |-> SubSeq(stack, 1, Len(stack) - 1)]

\* style_stack.drain(index..): the spans of the removed entries, bottom first
drained_spans(stack, index, content) ==
    [i \in 1..(Len(stack) - index) |-> close_entry(stack[index + i], content)]

\* a mutant of popped_spans: only the tag opened last is closed
popped_spans_top_only(stack, content) ==
    [i \in 1..Min(1, Len(stack)) |-> close_entry(stack[Len(stack) + 1 - i], content)]

\* while let Some(..) = style_stack.pop_back(): the spans of the entries, top first
popped_spans(stack, content) ==
    [i \in 1..Len(stack) |-> close_entry(stack[Len(stack) + 1 - i], content)]

RECURSIVE apply_spans_keep_empty(_, _)
\* a mutant of apply_spans: empty spans are applied as well
apply_spans_keep_empty(t, todo) ==
    IF todo = <<>> THEN ResOk(t)
    ELSE LET r == stylize_range(t, Head(todo).start, Head(todo).end, Head(todo).style)
         IN  IF r.ok THEN apply_spans_keep_empty(r.text, Tail(todo)) ELSE ResErr(r.err)

RECURSIVE apply_spans(_, _)
\* render: every span that is not empty goes to stylize_range; the first
\* error is returned
apply_spans(t, todo) ==
    IF todo = <<>> THEN ResOk(t)
    ELSE IF Span_is_empty(Head(todo)) THEN apply_spans(t, Tail(todo))
    ELSE LET r == stylize_range(t, Head(todo).start, Head(todo).end, Head(todo).style)
         IN  IF r.ok THEN apply_spans(r.text, Tail(todo)) ELSE ResErr(r.err)

-----------------------------------------------------------------------------
(* The markup strings given to render *)

\* most pieces of a markup string of tags and text
MaxTagItems == 6
\* most pieces of a markup string of tags, text and single brackets
MaxMixedItems == 4
\* most pieces of a markup string of opening tags, [/] and text
MaxImplicitItems == 5

ItemOpen(name) == [kind |-> "open", name |-> name, chars |-> <<"[">> \o name \o <<"]">>]
ItemClose(name) == [kind |-> "close", name |-> name, chars |-> <<"[", "/">> \o name \o <<"]">>]
ItemText(chars) == [kind |-> "text", name |-> <<>>, chars |-> chars]
ItemRaw(chars) == [kind |-> "raw", name |-> <<>>, chars |-> chars]

NameRed == <<"r", "e", "d">>
NameBoldBlue == <<"b", "o", "l", "d", " ", "b", "l", "u", "e">>

TagItems ==
    {ItemOpen(NameRed), ItemClose(NameRed), ItemOpen(NameBoldBlue),
     ItemClose(NameBoldBlue), ItemText(<<"x">>)}

MixedItems ==
    {ItemOpen(NameRed), ItemClose(NameRed), ItemRaw(<<"[", "/", "]">>),
     ItemText(<<"x">>), ItemText(<<"é">>), ItemRaw(<<"[">>), ItemText(<<"]">>),
     ItemText(<<"\\">>)}

ImplicitItems ==
    {ItemOpen(NameRed), ItemOpen(NameBoldBlue), ItemRaw(<<"[", "/", "]">>),
     ItemText(<<"x">>)}

\* most characters of a plain string handed to escape
MaxEscapeLen == 3

\* the plain strings handed to escape
EscapeChars == {"[", "]", "x"}

\* the markup escape writes for the plain string t, as one piece; name
\* keeps the plain string
ItemEscaped(t) == [kind |-> "escaped", name |-> t, chars |-> escape(t)]

\* the one-piece sequences of the escaped plain strings of at most n
\* characters
EscapedSeqs(n) == {<<ItemEscaped(t)>> : t \in UNION {[1..k -> EscapeChars] : k \in 0..n}}

\* the sequences of at most n of the pieces
ItemSeqs(pieces, n) == UNION {[1..k -> pieces] : k \in 0..n}

RECURSIVE Flatten(_)
\* the markup string written from the pieces
Flatten(seq) == IF seq = <<>> THEN <<>> ELSE Head(seq).chars \o Flatten(Tail(seq))

-----------------------------------------------------------------------------
(* Text::from_markup: render(markup, None), step by step *)

InitMarkup ==
    /\ items \in ItemSeqs(TagItems, MaxTagItems) \cup ItemSeqs(MixedItems, MaxMixedItems)
                 \cup ItemSeqs(ImplicitItems, MaxImplicitItems)
                 \cup EscapedSeqs(MaxEscapeLen)
    /\ markup = Flatten(items)
    /\ pc = "start"
    /\ tokens = <<>> /\ text_content = <<>> /\ spans = <<>> /\ style_stack = <<>>
    /\ result = None
    /\ idleText /\ idleStyle /\ idlePure

Step(op, removed) == [op |-> op, removed |-> removed]

\* a markup string without [ is returned as plain text
RenderPlain ==
    /\ pc = "start"
    /\ ~contains(markup, "[")
    /\ result' = Some(ResOk(set_style(Text_new(markup), Style_new)))
    /\ pc' = "done"
    /\ last' = Step("plain", 0)
    /\ UNCHANGED <<items, markup, tokens, text_content, spans, style_stack,
                   text, by_start, styleVars, pureVars>>

ParseTokens ==
    /\ pc = "start"
    /\ contains(markup, "[")
    /\ tokens' = parse_tokens(markup)
    /\ pc' = "loop"
    /\ last' = Step("parse_tokens", 0)
    /\ UNCHANGED <<items, markup, text_content, spans, style_stack, result,
                   text, by_start, styleVars, pureVars>>

\* Token::Text
TextToken ==
    /\ pc = "loop" /\ tokens # <<>>
    /\ Head(tokens).kind = "Text"
    /\ text_content' = text_content \o Head(tokens).text
    /\ tokens' = Tail(tokens)
    /\ last' = Step("text", 0)
    /\ UNCHANGED <<items, markup, pc, spans, style_stack, result,
                   text, by_start, styleVars, pureVars>>

\* Token::Tag, an opening tag: its style is parsed from its name
OpeningTag ==
    /\ pc = "loop" /\ tokens # <<>>
    /\ Head(tokens).kind = "Tag" /\ ~is_closing(Head(tokens).tag)
    /\ LET tag == Head(tokens).tag
           style == Style_parse(tag.name)
       IN  IF style.ok
           THEN /\ style_stack' = Append(style_stack,
                                         StyleStackEntry(byte_len(text_content), tag, style.value))
                /\ tokens' = Tail(tokens)
                /\ UNCHANGED <<pc, result>>
           ELSE /\ pc' = IF style = Panic THEN "panic" ELSE "done"
                /\ result' = IF style = Panic THEN None ELSE Some(style)
                /\ UNCHANGED <<tokens, style_stack>>
    /\ last' = Step("open", 0)
    /\ UNCHANGED <<items, markup, text_content, spans, text, by_start, styleVars, pureVars>>

\* Token::Tag, the closing tag [/]: the most recent tag is closed
ImplicitClose ==
    /\ pc = "loop" /\ tokens # <<>>
    /\ Head(tokens).kind = "Tag" /\ is_closing(Head(tokens).tag)
    /\ closing_name(Head(tokens).tag) = <<>>
    /\ IF style_stack # <<>>
       THEN /\ spans' = Append(spans, close_entry(pop_back(style_stack).entry, text_content))
            /\ style_stack' = pop_back(style_stack).rest
            /\ last' = Step("implicit_close", 1)
       ELSE /\ UNCHANGED <<spans, style_stack>>
            /\ last' = Step("implicit_close", 0)
    /\ tokens' = Tail(tokens)
    /\ UNCHANGED <<items, markup, pc, text_content, result, text, by_start, styleVars, pureVars>>

\* Token::Tag, a closing tag with a name
ExplicitClose ==
    /\ pc = "loop" /\ tokens # <<>>
    /\ Head(tokens).kind = "Tag" /\ is_closing(Head(tokens).tag)
    /\ closing_name(Head(tokens).tag) # <<>>
    /\ LET found_index == find_matching(style_stack, closing_name(Head(tokens).tag))
       IN  IF is_some(found_index)
           THEN /\ spans' = spans \o drained_spans(style_stack, found_index[1], text_content)
                /\ style_stack' = SubSeq(style_stack, 1, found_index[1])
                /\ tokens' = Tail(tokens)
                /\ last' = Step("explicit_close", Len(style_stack) - found_index[1])
                /\ UNCHANGED <<pc, result>>
           ELSE /\ result' = Some(ResErr("MarkupError"))
                /\ pc' = "done"
                /\ last' = Step("explicit_close", 0)
                /\ UNCHANGED <<tokens, spans, style_stack>>
    /\ UNCHANGED <<items, markup, text_content, text, by_start, styleVars, pureVars>>

\* the tags still open behind the last token are closed
CloseRemaining ==
    /\ pc = "loop" /\ tokens = <<>>
    /\ spans' = spans \o popped_spans(style_stack, text_content)
    /\ style_stack' = <<>>
    /\ pc' = "apply"
    /\ last' = Step("close_remaining", Len(style_stack))
    /\ UNCHANGED <<items, markup, tokens, text_content, result, text, by_start, styleVars, pureVars>>

\* the Text is made of the plain text and the spans
ApplySpans ==
    /\ pc = "apply"
    /\ result' = Some(apply_spans(Text_new(text_content), spans))
    /\ pc' = "done"
    /\ last' = Step("apply_spans", 0)
    /\ UNCHANGED <<items, markup, tokens, text_content, spans, style_stack,
                   text, by_start, styleVars, pureVars>>

NextMarkup ==
    \/ RenderPlain
    \/ ParseTokens
    \/ TextToken
    \/ OpeningTag
    \/ ImplicitClose
    \/ ExplicitClose
    \/ CloseRemaining
    \/ ApplySpans

SpecMarkup == InitMarkup /\ [][NextMarkup]_vars

-----------------------------------------------------------------------------
(* Claims about the markup parser *)

SameBag(s, t) ==
    /\ Len(s) = Len(t)
    /\ \A i \in DOMAIN s : Count(s, s[i]) = Count(t, s[i])

RECURSIVE Nested(_, _, _, _)
\* the pieces read as well-nested markup: every closing tag names the
\* innermost open tag and no tag stays open. open is the stack of the open
\* tags, plain the text in front, pairs the pairs of tags closed so far.
Nested(seq, open, plain, pairs) ==
    IF seq = <<>> THEN [ok |-> open = <<>>, plain |-> plain, pairs |-> pairs]
    ELSE LET it == Head(seq)
         IN  IF it.kind = "text"
             THEN Nested(Tail(seq), open, plain \o it.chars, pairs)
             ELSE IF it.kind = "open"
             THEN Nested(Tail(seq),
                         Append(open, [name |-> it.name, start |-> Len(plain)]),
                         plain, pairs)
             ELSE IF it.kind = "close" /\ open # <<>> /\ open[Len(open)].name = it.name
             THEN Nested(Tail(seq), SubSeq(open, 1, Len(open) - 1), plain,
                         Append(pairs, [name |-> it.name,
                                        start |-> open[Len(open)].start,
                                        end |-> Len(plain)]))
             ELSE [ok |-> FALSE, plain |-> plain, pairs |-> pairs]

WellNested(seq) == Nested(seq, <<>>, <<>>, <<>>)

AsciiOnly(seq) == \A i \in DOMAIN seq : \A k \in DOMAIN seq[i].chars : len_utf8(seq[i].chars[k]) = 1

\* the pairs of tags that enclose at least one character, as spans
PairSpans(pairs) ==
    LET F[i \in 0..Len(pairs)] ==
            IF i = 0 THEN <<>>
            ELSE IF pairs[i].start < pairs[i].end
                 THEN Append(F[i - 1], Span_new(pairs[i].start, pairs[i].end,
                                                Style_parse(pairs[i].name).value))
                 ELSE F[i - 1]
    IN  F[Len(pairs)]

\* C8: for markup of well-nested tags and ASCII text, from_markup returns a
\* Text whose plain text is the markup without its tags and whose spans are
\* one span for each pair of tags that encloses at least one character,
\* from the plain-text length in front of the opening tag to the one in
\* front of the closing tag, with the style Style::parse gives the tag name
C8_WellNestedMarkup ==
    (pc = "done" /\ WellNested(items).ok /\ AsciiOnly(items)) =>
        /\ is_some(result) /\ result[1].ok
        /\ result[1].value.content = WellNested(items).plain
        /\ SameBag(result[1].value.spans, PairSpans(WellNested(items).pairs))

\* from_markup has returned for well-nested markup with a tag inside another
\* tag, behind a character
C8_Witness ==
    /\ pc = "done" /\ WellNested(items).ok /\ AsciiOnly(items)
    /\ is_some(result) /\ result[1].ok
    /\ Len(WellNested(items).pairs) = 2
    /\ \E i, j \in DOMAIN result[1].value.spans :
          /\ result[1].value.spans[i].start < result[1].value.spans[j].start
          /\ result[1].value.spans[j].end <= result[1].value.spans[i].end
          /\ result[1].value.spans[i].style # result[1].value.spans[j].style
    /\ Len(result[1].value.spans) = 2

\* the next token is a closing tag with a name
AtNamedClose ==
    /\ pc = "loop" /\ tokens # <<>>
    /\ Head(tokens).kind = "Tag" /\ is_closing(Head(tokens).tag)
    /\ closing_name(Head(tokens).tag) # <<>>

\* the entries of the stack whose tag has the name
Named(stack, name) == {i \in DOMAIN stack : stack[i].tag.name = name}

\* C9: a closing tag with a name removes from the stack of open tags the
\* entry of that name nearest to the top and every entry above it; each
\* removed entry yields one span from the start of the entry to the current
\* text position; the entries below stay as they are
C9_NamedCloseRemoves ==
    [][(AtNamedClose /\ Named(style_stack, closing_name(Head(tokens).tag)) # {}) =>
          LET match == Named(style_stack, closing_name(Head(tokens).tag))
              k == CHOOSE i \in match : \A j \in match : j <= i
              yielded == [i \in 1..(Len(style_stack) - k + 1) |->
                             Span_new(style_stack[k + i - 1].start_pos,
                                      byte_len(text_content),
                                      style_stack[k + i - 1].style)]
          IN  /\ style_stack' = SubSeq(style_stack, 1, k - 1)
              /\ Len(spans') = Len(spans) + Len(yielded)
              /\ SubSeq(spans', 1, Len(spans)) = spans
              /\ SameBag(SubSeq(spans', Len(spans) + 1, Len(spans')), yielded)
      ]_vars

\* a closing tag has removed its entry and one above it, and an entry of the
\* same name stays open below
C9_Witness ==
    /\ pc = "loop" /\ last.op = "explicit_close" /\ last.removed >= 2
    /\ style_stack # <<>>
    /\ Len(spans) >= last.removed
    /\ style_stack[Len(style_stack)].style = spans[Len(spans) - last.removed + 1].style
    /\ spans[Len(spans)].style # spans[Len(spans) - last.removed + 1].style
    /\ spans[Len(spans)].end > spans[Len(spans)].start

\* C10: from_markup fails with MarkupError when a closing tag with a name is
\* processed while no open tag has that name; no Text is returned
C10_UnmatchedCloseFails ==
    [][(AtNamedClose /\ Named(style_stack, closing_name(Head(tokens).tag)) = {}) =>
          /\ pc' = "done"
          /\ result' = Some(ResErr("MarkupError"))
      ]_vars

\* from_markup has failed at a closing tag whose opening tag an earlier
\* closing tag had closed with its own
C10_Witness ==
    /\ pc = "done" /\ result = Some(ResErr("MarkupError"))
    /\ last.op = "explicit_close"
    /\ Len(spans) >= 2
    /\ \E i \in DOMAIN spans :
          spans[i].style = Style_parse(closing_name(Head(tokens).tag)).value

\* the next token is the closing tag [/]
AtImplicitClose ==
    /\ pc = "loop" /\ tokens # <<>>
    /\ Head(tokens).kind = "Tag" /\ is_closing(Head(tokens).tag)
    /\ closing_name(Head(tokens).tag) = <<>>

\* C11: the closing tag [/] closes exactly the tag opened most recently that
\* is still open: the stack loses its top entry and no other, and one span
\* from the start of that entry to the current text position is produced
C11_ImplicitCloseTop ==
    [][(AtImplicitClose /\ style_stack # <<>>) =>
          LET top == style_stack[Len(style_stack)]
          IN  /\ style_stack' = SubSeq(style_stack, 1, Len(style_stack) - 1)
              /\ spans' = Append(spans, Span_new(top.start_pos, byte_len(text_content),
                                                 top.style))
      ]_vars

\* [/] has closed a tag around a character while an older tag of another
\* name, opened in front of another character, stays open
C11_Witness ==
    /\ pc = "loop" /\ last.op = "implicit_close" /\ last.removed = 1
    /\ style_stack # <<>> /\ spans # <<>>
    /\ spans[Len(spans)].start < spans[Len(spans)].end
    /\ style_stack[Len(style_stack)].start_pos < spans[Len(spans)].start
    /\ style_stack[Len(style_stack)].style # spans[Len(spans)].style

\* C12: the tags still open behind the last token are closed without an
\* error, each with a span from its start to the end of the text; when
\* from_markup succeeds no tag is open, and the returned Text has each of
\* these spans that is not empty, ending at the length of the text
C12_OpenTagsClosedAtEnd ==
    [][/\ (pc = "loop" /\ tokens = <<>>) =>
              /\ pc' = "apply" /\ result' = None
              /\ style_stack' = <<>>
              /\ Len(spans') = Len(spans) + Len(style_stack)
              /\ SubSeq(spans', 1, Len(spans)) = spans
              /\ SameBag(SubSeq(spans', Len(spans) + 1, Len(spans')),
                         [i \in DOMAIN style_stack |->
                             Span_new(style_stack[i].start_pos, byte_len(text_content),
                                      style_stack[i].style)])
       /\ (pc = "apply" /\ is_some(result') /\ result'[1].ok) =>
              /\ style_stack' = <<>>
              /\ \A i \in (Len(spans) - last.removed + 1)..Len(spans) :
                    spans[i].start < spans[i].end =>
                        /\ spans[i].end = Text_len(result'[1].value)
                        /\ Count(result'[1].value.spans, spans[i]) = Count(spans, spans[i])
      ]_vars

\* from_markup has succeeded on markup without a closing tag, in which two
\* tags were opened at different places in front of text
C12_Witness ==
    /\ pc = "done" /\ is_some(result) /\ result[1].ok
    /\ ~contains(markup, "/")
    /\ Len(result[1].value.spans) = 2
    /\ result[1].value.spans[1].start < result[1].value.spans[2].start
    /\ result[1].value.spans[1].end = Text_len(result[1].value)
    /\ result[1].value.spans[2].end = Text_len(result[1].value)
    /\ result[1].value.spans[2].start < result[1].value.spans[2].end
    /\ result[1].value.spans[1].style # result[1].value.spans[2].style

\* piece k is a [ with no ] behind it, and the pieces in front of it are
\* well-nested markup
UnterminatedAt(seq, k) ==
    /\ seq[k] = ItemRaw(<<"[">>)
    /\ \A j \in (k + 1)..Len(seq) :
          seq[j].kind = "text" /\ \A c \in DOMAIN seq[j].chars : seq[j].chars[c] # "]"
    /\ WellNested(SubSeq(seq, 1, k - 1)).ok

\* C13: a [ with no ] behind it is text: from_markup does not fail, and the
\* plain text is the text in front of the bracket, without the tags,
\* followed by the bracket and the rest of the markup as written
C13_UnterminatedBracketIsText ==
    (pc = "done" /\ AsciiOnly(items)) =>
        \A k \in DOMAIN items :
            UnterminatedAt(items, k) =>
                /\ is_some(result) /\ result[1].ok
                /\ result[1].value.content =
                       WellNested(SubSeq(items, 1, k - 1)).plain \o <<"[">>
                           \o Flatten(SubSeq(items, k + 1, Len(items)))

\* C14: the offsets of the spans of from_markup count characters, not bytes:
\* for well-nested markup whose text has a character of more than one byte,
\* from_markup succeeds and every span starts and ends at the number of
\* characters of plain text in front of its opening and its closing tag
C14_CharacterOffsets ==
    (pc = "done" /\ WellNested(items).ok /\ ~AsciiOnly(items)) =>
        /\ is_some(result) /\ result[1].ok
        /\ SameBag(result[1].value.spans, PairSpans(WellNested(items).pairs))

-----------------------------------------------------------------------------
(* ansi::strip_ansi *)

\* the character U+001B, written as a string of its own
ESC == "ESC"

\* char::is_ascii_alphabetic
is_ascii_alphabetic(ch) ==
    \E i \in DOMAIN UpperCase : UpperCase[i] = ch \/ LowerCase[i] = ch

\* a mutant of skip_sequence: the terminator of the sequence stays in the text
skip_sequence_keep_terminator(rest) ==
    IF \E i \in DOMAIN rest : is_ascii_alphabetic(rest[i]) \/ rest[i] = ESC
    THEN LET i == CHOOSE i \in DOMAIN rest :
                      /\ is_ascii_alphabetic(rest[i]) \/ rest[i] = ESC
                      /\ \A j \in 1..(i - 1) : ~is_ascii_alphabetic(rest[j]) /\ rest[j] # ESC
         IN  [rest |-> SubSeq(rest, i + 1, Len(rest)), push |-> <<rest[i]>>]
    ELSE [rest |-> <<>>, push |-> <<>>]

\* strip_ansi, the loop behind ESC [: the characters up to the first letter
\* are dropped with it; an ESC met before a letter ends the loop and is
\* pushed to the result. rest is what the iterator yields afterwards.
skip_sequence(rest) ==
    IF \E i \in DOMAIN rest : is_ascii_alphabetic(rest[i]) \/ rest[i] = ESC
    THEN LET i == CHOOSE i \in DOMAIN rest :
                      /\ is_ascii_alphabetic(rest[i]) \/ rest[i] = ESC
                      /\ \A j \in 1..(i - 1) : ~is_ascii_alphabetic(rest[j]) /\ rest[j] # ESC
         IN  [rest |-> SubSeq(rest, i + 1, Len(rest)),
              push |-> IF rest[i] = ESC THEN <<ESC>> ELSE <<>>]
    ELSE [rest |-> <<>>, push |-> <<>>]

RECURSIVE strip_loop(_, _)
\* strip_ansi, the loop over the characters
strip_loop(chars, res) ==
    IF chars = <<>> THEN res
    ELSE IF Head(chars) = ESC /\ Len(chars) >= 2 /\ chars[2] = "["
    THEN LET skipped == skip_sequence(SubSeq(chars, 3, Len(chars)))
         IN  strip_loop(skipped.rest, res \o skipped.push)
    ELSE strip_loop(Tail(chars), Append(res, Head(chars)))

\* ansi::strip_ansi
strip_ansi(s) == strip_loop(s, <<>>)

\* longest string given to strip_ansi
MaxAnsiLen == 6

AnsiChars == {ESC, "[", "1", "m", "é"}

\* the strings of the test ansi_stripping_handles_malformed_sequences
AnsiInputs(max) == UNION {[1..n -> AnsiChars] : n \in 0..max}

InitAnsi ==
    /\ input \in AnsiInputs(MaxAnsiLen)
    /\ output = None
    /\ idleText /\ idleStyle /\ idleMarkup

\* the test strips the string, and the result once more
StripAnsi ==
    /\ output = None
    /\ output' = Some([stripped |-> strip_ansi(input),
                       double_stripped |-> strip_ansi(strip_ansi(input))])
    /\ UNCHANGED <<input, textVars, styleVars, markupVars>>

NextAnsi == StripAnsi

SpecAnsi == InitAnsi /\ [][NextAnsi]_vars

\* C15: strip_ansi is idempotent: stripping the stripped string gives the
\* stripped string, for every string
C15_StripIdempotent ==
    is_some(output) => output[1].double_stripped = output[1].stripped

\* positions from..to of s hold no letter and no ESC
ParameterRun(s, from, to) ==
    \A i \in from..to : ~is_ascii_alphabetic(s[i]) /\ s[i] # ESC

EscFree(s, from, to) == \A i \in from..to : s[i] # ESC

\* C16: an ESC met in an ESC [ sequence before its letter ends that sequence
\* and starts a new one: when it is followed by [, a run of parameters and
\* a letter, this second sequence is removed from the output as well
C16_EscRestartsSequence ==
    is_some(output) =>
        \A a, b, c \in DOMAIN input :
            ( /\ a + 1 < b /\ b + 1 < c
              /\ EscFree(input, 1, a - 1)
              /\ input[a] = ESC /\ input[a + 1] = "["
              /\ ParameterRun(input, a + 2, b - 1)
              /\ input[b] = ESC /\ input[b + 1] = "["
              /\ ParameterRun(input, b + 2, c - 1)
              /\ is_ascii_alphabetic(input[c])
              /\ EscFree(input, c + 1, Len(input)) )
            => output[1].stripped =
                   SubSeq(input, 1, a - 1) \o SubSeq(input, c + 1, Len(input))

\* position a of s starts a complete CSI sequence that ends at position c:
\* ESC, [, characters that are neither letters nor ESC, a letter
CsiFromTo(s, a, c) ==
    /\ a + 1 < c /\ c <= Len(s)
    /\ s[a] = ESC /\ s[a + 1] = "["
    /\ ParameterRun(s, a + 2, c - 1)
    /\ is_ascii_alphabetic(s[c])

\* s is made of chunks without ESC and complete CSI sequences
ChunksAndCsi(s) ==
    \A a \in DOMAIN s : s[a] = ESC => \E c \in DOMAIN s : CsiFromTo(s, a, c)

\* the characters of s outside its complete CSI sequences, in order
TextChunks(s) ==
    LET inCsi(i) == \E a, c \in DOMAIN s : CsiFromTo(s, a, c) /\ a <= i /\ i <= c
        F[i \in 0..Len(s)] ==
            IF i = 0 THEN <<>>
            ELSE IF inCsi(i) THEN F[i - 1] ELSE Append(F[i - 1], s[i])
    IN  F[Len(s)]

\* C17: for a string of chunks without ESC and complete CSI sequences,
\* strip_ansi returns the chunks, concatenated in order; a string without
\* ESC is returned as it is
C17_StripsCompleteSequences ==
    (is_some(output) /\ ChunksAndCsi(input)) =>
        /\ output[1].stripped = TextChunks(input)
        /\ EscFree(input, 1, Len(input)) => output[1].stripped = input

\* strip_ansi has been applied to text, a CSI sequence with a parameter,
\* and text behind it
C17_Witness ==
    /\ is_some(output) /\ ChunksAndCsi(input)
    /\ Len(input) >= 6
    /\ input[1] # ESC /\ input[Len(input)] = "é"
    /\ CsiFromTo(input, 2, 5)
    /\ output[1].stripped = <<input[1], "é">>

-----------------------------------------------------------------------------
(* Color::from_hex, called on strings and on formatted colours *)

\* longest string given to from_hex
MaxHexLen == 6

HexChars == {"#", "f", "0", "g", "é", "+"}

\* the values of a channel that are formatted
Channels == {0, 10, 64, 128, 255}

UpperHexDigits == <<"0", "1", "2", "3", "4", "5", "6", "7", "8", "9", "A", "B", "C", "D", "E", "F">>

\* format!("{:02X}", v)
format_02X(v) == <<UpperHexDigits[(v \div 16) + 1], UpperHexDigits[(v % 16) + 1]>>

\* format!("#{:02X}{:02X}{:02X}", r, g, b)
format_hex(r, g, b) == <<"#">> \o format_02X(r) \o format_02X(g) \o format_02X(b)

HexCalls(max) ==
    {[kind |-> "str", s |-> s] : s \in UNION {[1..n -> HexChars] : n \in 0..max}}
    \cup {[kind |-> "rgb", r |-> c[1], g |-> c[2], b |-> c[3]] :
             c \in Channels \X Channels \X Channels}
    \cup {[kind |-> "short", r |-> c[1], g |-> c[2], b |-> c[3]] :
             c \in (0..15) \X (0..15) \X (0..15)}

InitHex ==
    /\ input \in HexCalls(MaxHexLen)
    /\ output = None
    /\ idleText /\ idleStyle /\ idleMarkup

\* from_hex on a string, and Style::parse on the string as a style
FromHex ==
    /\ output = None /\ input.kind = "str"
    /\ output' = Some([from_hex |-> from_hex(input.s), parsed |-> Style_parse(input.s)])
    /\ UNCHANGED <<input, textVars, styleVars, markupVars>>

\* the test color_hex_parsing_consistency, with and without the #
FromHexFormatted ==
    /\ output = None /\ input.kind = "rgb"
    /\ LET hex == format_hex(input.r, input.g, input.b)
       IN  output' = Some([with_hash |-> from_hex(hex), without_hash |-> from_hex(Tail(hex))])
    /\ UNCHANGED <<input, textVars, styleVars, markupVars>>

\* from_hex on three digits, with and without the #
FromHexShort ==
    /\ output = None /\ input.kind = "short"
    /\ LET hex == <<HexDigits[input.r + 1], HexDigits[input.g + 1], HexDigits[input.b + 1]>>
       IN  output' = Some([with_hash |-> from_hex(<<"#">> \o hex), without_hash |-> from_hex(hex)])
    /\ UNCHANGED <<input, textVars, styleVars, markupVars>>

NextHex ==
    \/ FromHex
    \/ FromHexFormatted
    \/ FromHexShort

SpecHex == InitHex /\ [][NextHex]_vars

\* s is an optional # followed by exactly 3 or 6 hexadecimal digits
HexLiteral(s) ==
    LET digits == IF starts_with(s, "#") THEN Tail(s) ELSE s
    IN  /\ Len(digits) \in {3, 6}
        /\ \A i \in DOMAIN digits : is_some(to_digit(digits[i]))

\* C18: from_hex does not panic on malformed input: for every string that
\* is not an optional # followed by exactly 3 or 6 hexadecimal digits it
\* returns a ColorError, and Style::parse of the string does not panic
C18_FromHexRejectsMalformed ==
    (is_some(output) /\ input.kind = "str" /\ ~HexLiteral(input.s)) =>
        /\ output[1].from_hex = ResErr("ColorError")
        /\ output[1].parsed # Panic

\* C19: from_hex of the formatted colour is Color::rgb(r, g, b), with the #
\* and without it; a string of 3 digits gives each digit doubled; a string
\* whose length behind the # is neither 3 nor 6 is rejected with ColorError
C19_HexRoundTrip ==
    is_some(output) =>
        /\ input.kind = "rgb" =>
              /\ output[1].with_hash = ResOk(Color_rgb(input.r, input.g, input.b))
              /\ output[1].without_hash = ResOk(Color_rgb(input.r, input.g, input.b))
        /\ input.kind = "short" =>
              /\ output[1].with_hash =
                     ResOk(Color_rgb(17 * input.r, 17 * input.g, 17 * input.b))
              /\ output[1].without_hash = output[1].with_hash
        /\ input.kind = "str" =>
              LET behind == IF starts_with(input.s, "#") THEN Tail(input.s) ELSE input.s
              IN  byte_len(behind) \notin {3, 6} =>
                      output[1].from_hex = ResErr("ColorError")

-----------------------------------------------------------------------------
(* Color::downgrade *)

\* the variants of StandardColor, in the order of their indices 0..15
StandardColors ==
    <<"Black", "Red", "Green", "Yellow", "Blue", "Magenta", "Cyan", "White",
      "BrightBlack", "BrightRed", "BrightGreen", "BrightYellow", "BrightBlue",
      "BrightMagenta", "BrightCyan", "BrightWhite">>

\* StandardColor::to_rgb, in the same order
StandardRgb ==
    << <<0, 0, 0>>, <<128, 0, 0>>, <<0, 128, 0>>, <<128, 128, 0>>,
       <<0, 0, 128>>, <<128, 0, 128>>, <<0, 128, 128>>, <<192, 192, 192>>,
       <<128, 128, 128>>, <<255, 0, 0>>, <<0, 255, 0>>, <<255, 255, 0>>,
       <<0, 0, 255>>, <<255, 0, 255>>, <<0, 255, 255>>, <<255, 255, 255>> >>

\* StandardColor::to_rgb
Standard_to_rgb(name) ==
    StandardRgb[CHOOSE i \in DOMAIN StandardColors : StandardColors[i] = name]

\* standard_from_index
standard_from_index(index) ==
    IF index <= 15 THEN StandardColors[index + 1] ELSE "White"

\* eight_bit_to_rgb
eight_bit_to_rgb(index) ==
    IF index <= 15 THEN Standard_to_rgb(standard_from_index(index))
    ELSE IF index <= 231
    THEN LET i == index - 16
             axis(v) == IF v = 0 THEN 0 ELSE 55 + v * 40
         IN  <<axis(i \div 36), axis((i % 36) \div 6), axis(i % 6)>>
    ELSE LET gray == 8 + (index - 232) * 10
         IN  <<gray, gray, gray>>

as_u8(flag) == IF flag THEN 1 ELSE 0

\* Color::rgb_to_eight_bit
rgb_to_eight_bit(r, g, b) ==
    IF r < 8 /\ g < 8 /\ b < 8
    THEN as_u8(r # 0) + as_u8(g # 0) * 2 + as_u8(b # 0) * 4
    ELSE IF (r >= 128 \/ g >= 128 \/ b >= 128)
            /\ as_u8(r >= 128) + as_u8(g >= 128) * 2 + as_u8(b >= 128) * 4 < 8
    THEN as_u8(r >= 128) + as_u8(g >= 128) * 2 + as_u8(b >= 128) * 4 + 8
    ELSE IF r = g /\ g = b
    THEN IF r < 8 THEN 16
         ELSE IF r > 238 THEN 231
         ELSE 232 + (r - 8) \div 10
    ELSE LET cube(v) == IF v < 48 THEN 0 ELSE (v - 35) \div 40
         IN  16 + 36 * cube(r) + 6 * cube(g) + cube(b)

\* the square of the distance closest_standard_color compares (the code
\* compares the square roots, which are in the same order)
distance2(r, g, b, rgb) ==
    (r - rgb[1]) * (r - rgb[1]) + (g - rgb[2]) * (g - rgb[2]) + (b - rgb[3]) * (b - rgb[3])

\* f64::INFINITY, the first best_distance: above every distance of two
\* colours, whose square is at most 3 * 255 * 255
INFINITY == 3 * 255 * 255 + 1

\* the loop of closest_standard_color from the colour of number i on
RECURSIVE closest_loop(_, _, _, _, _, _)
closest_loop(r, g, b, i, best_color, best_distance) ==
    IF i > Len(StandardColors) THEN best_color
    ELSE LET distance == distance2(r, g, b, Standard_to_rgb(StandardColors[i]))
         IN  IF distance < best_distance
             THEN closest_loop(r, g, b, i + 1, StandardColors[i], distance)
             ELSE closest_loop(r, g, b, i + 1, best_color, best_distance)

\* a mutant of the loop: a colour of the same distance replaces the best one
RECURSIVE closest_loop_last_wins(_, _, _, _, _, _)
closest_loop_last_wins(r, g, b, i, best_color, best_distance) ==
    IF i > Len(StandardColors) THEN best_color
    ELSE LET distance == distance2(r, g, b, Standard_to_rgb(StandardColors[i]))
         IN  IF distance <= best_distance
             THEN closest_loop_last_wins(r, g, b, i + 1, StandardColors[i], distance)
             ELSE closest_loop_last_wins(r, g, b, i + 1, best_color, best_distance)

\* a mutant of closest_standard_color, with the loop above
closest_standard_color_last_wins(r, g, b) ==
    closest_loop_last_wins(r, g, b, 1, "White", INFINITY)

\* closest_standard_color
closest_standard_color(r, g, b) == closest_loop(r, g, b, 1, "White", INFINITY)

\* a mutant of downgrade: the 8-bit system leaves every colour as it is
downgrade_keeps_true_color(self, color_system) ==
    IF color_system = "Standard"
    THEN IF self.kind = "Default" THEN Color_Default
         ELSE IF self.kind = "Standard" THEN Color_Standard(self.name)
         ELSE IF self.kind = "EightBit"
         THEN IF self.index < 16 THEN Color_Standard(standard_from_index(self.index))
              ELSE LET rgb == eight_bit_to_rgb(self.index)
                   IN  Color_Standard(closest_standard_color(rgb[1], rgb[2], rgb[3]))
         ELSE Color_Standard(closest_standard_color(self.r, self.g, self.b))
    ELSE self

\* Color::downgrade
downgrade(self, color_system) ==
    IF color_system = "Standard"
    THEN IF self.kind = "Default" THEN Color_Default
         ELSE IF self.kind = "Standard" THEN Color_Standard(self.name)
         ELSE IF self.kind = "EightBit"
         THEN IF self.index < 16 THEN Color_Standard(standard_from_index(self.index))
              ELSE LET rgb == eight_bit_to_rgb(self.index)
                   IN  Color_Standard(closest_standard_color(rgb[1], rgb[2], rgb[3]))
         ELSE Color_Standard(closest_standard_color(self.r, self.g, self.b))
    ELSE IF color_system = "EightBit"
    THEN IF self.kind = "TrueColor"
         THEN Color_EightBit(rgb_to_eight_bit(self.r, self.g, self.b))
         ELSE self
    ELSE self

ColorSystems == {"Standard", "EightBit", "TrueColor"}

\* values of a channel on both sides of every comparison of the conversions,
\* and 64, half way between two values of the table of the standard colours
ChannelSamples == {0, 7, 8, 47, 48, 64, 127, 128, 200, 238, 239, 255}

\* the true colours of the colour cube and the grayscale ramp of the palette
PaletteColors ==
    {Color_rgb(eight_bit_to_rgb(i)[1], eight_bit_to_rgb(i)[2], eight_bit_to_rgb(i)[3]) :
        i \in 16..255}

\* the colours of color_strategy
StrategyColors ==
    {Color_Default}
    \cup {Color_Standard(StandardColors[i]) : i \in DOMAIN StandardColors}
    \cup {Color_EightBit(i) : i \in 0..255}
    \cup {Color_rgb(c[1], c[2], c[3]) :
             c \in ChannelSamples \X ChannelSamples \X ChannelSamples}
    \cup PaletteColors

InitColor ==
    /\ input \in [color : StrategyColors, color_system : ColorSystems]
    /\ output = None
    /\ idleText /\ idleStyle /\ idleMarkup

\* the test color_downgrade_preserves_validity; the colour is downgraded,
\* and the result once more
Downgrade ==
    /\ output = None
    /\ output' = Some([downgraded |-> downgrade(input.color, input.color_system),
                       again |-> downgrade(downgrade(input.color, input.color_system),
                                           input.color_system)])
    /\ UNCHANGED <<input, textVars, styleVars, markupVars>>

NextColor == Downgrade

SpecColor == InitColor /\ [][NextColor]_vars

\* the variants of Color a colour system can show
Ceiling(color_system) ==
    IF color_system = "Standard" THEN {"Default", "Standard"}
    ELSE IF color_system = "EightBit" THEN {"Default", "Standard", "EightBit"}
    ELSE {"Default", "Standard", "EightBit", "TrueColor"}

\* C20: downgrade does not raise the fidelity and does not change a colour
\* that fits: the result is of a variant within the ceiling of the colour
\* system; a colour whose variant is within the ceiling is returned as it
\* is; so downgrade(TrueColor) changes nothing and downgrade is idempotent
C20_DowngradeWithinCeiling ==
    is_some(output) =>
        /\ output[1].downgraded.kind \in Ceiling(input.color_system)
        /\ input.color.kind \in Ceiling(input.color_system) =>
               output[1].downgraded = input.color
        /\ input.color_system = "TrueColor" => output[1].downgraded = input.color
        /\ output[1].again = output[1].downgraded

\* a true colour has been downgraded to the 8-bit system, into the cube
C20_Witness ==
    /\ is_some(output)
    /\ input.color.kind = "TrueColor" /\ input.color_system = "EightBit"
    /\ output[1].downgraded.kind = "EightBit"
    /\ output[1].downgraded.index > 16 /\ output[1].downgraded.index < 231

\* the colours downgrade hands to closest_standard_color
SearchedColor(color) ==
    color.kind = "TrueColor" \/ (color.kind = "EightBit" /\ color.index >= 16)

\* the RGB value of such a colour
SearchedRgb(color) ==
    IF color.kind = "TrueColor" THEN <<color.r, color.g, color.b>>
    ELSE eight_bit_to_rgb(color.index)

\* the numbers of the standard colours at the least distance to rgb
Nearest(rgb) ==
    {i \in DOMAIN StandardColors :
        \A j \in DOMAIN StandardColors :
            distance2(rgb[1], rgb[2], rgb[3], StandardRgb[i])
                <= distance2(rgb[1], rgb[2], rgb[3], StandardRgb[j])}

\* C21: downgrading a true colour, or a palette colour of index 16 and
\* above, to Standard returns a standard colour of the least Euclidean
\* distance to the colour's RGB value, and of several such colours the
\* first one in the order Black .. White, BrightBlack .. BrightWhite
C21_NearestStandardFirstWins ==
    (is_some(output) /\ input.color_system = "Standard" /\ SearchedColor(input.color)) =>
        LET near == Nearest(SearchedRgb(input.color))
            first == CHOOSE i \in near : \A j \in near : i <= j
        IN  output[1].downgraded = Color_Standard(StandardColors[first])

\* a colour with two nearest standard colours has been downgraded
C21_Witness ==
    /\ is_some(output) /\ input.color_system = "Standard"
    /\ SearchedColor(input.color)
    /\ Cardinality(Nearest(SearchedRgb(input.color))) > 1

\* ---------------------------------------------------------------------
\* ansi.rs: AnsiBuilder and style_to_ansi.  A string is the sequence of
\* its characters, the builder's sequences a sequence of strings.

DecimalDigits == <<"0", "1", "2", "3", "4", "5", "6", "7", "8", "9">>

\* u8::to_string and the {} of format!
RECURSIVE to_string(_)
to_string(n) ==
    IF n < 10 THEN <<DecimalDigits[n + 1]>>
    ELSE to_string(n \div 10) \o <<DecimalDigits[(n % 10) + 1]>>

\* StandardColor::ansi_fg_code, in the order of StandardColors
AnsiFgCodes == <<30, 31, 32, 33, 34, 35, 36, 37, 90, 91, 92, 93, 94, 95, 96, 97>>

\* StandardColor::ansi_bg_code, in the order of StandardColors
AnsiBgCodes == <<40, 41, 42, 43, 44, 45, 46, 47, 100, 101, 102, 103, 104, 105, 106, 107>>

ansi_fg_code(name) ==
    AnsiFgCodes[CHOOSE i \in DOMAIN StandardColors : StandardColors[i] = name]

ansi_bg_code(name) ==
    AnsiBgCodes[CHOOSE i \in DOMAIN StandardColors : StandardColors[i] = name]

\* a mutant of add_color: the colour is written as it is, not downgraded
add_color_as_given(sequences, color, is_background, color_system) ==
    IF color.kind = "Default"
    THEN Append(sequences, IF is_background THEN <<"4", "9">> ELSE <<"3", "9">>)
    ELSE IF color.kind = "Standard"
    THEN Append(sequences, to_string(IF is_background THEN ansi_bg_code(color.name)
                                     ELSE ansi_fg_code(color.name)))
    ELSE IF color.kind = "EightBit"
    THEN Append(sequences, (IF is_background THEN <<"4", "8", ";", "5", ";">>
                            ELSE <<"3", "8", ";", "5", ";">>) \o to_string(color.index))
    ELSE Append(sequences, (IF is_background THEN <<"4", "8", ";", "2", ";">>
                            ELSE <<"3", "8", ";", "2", ";">>)
                           \o to_string(color.r) \o <<";">>
                           \o to_string(color.g) \o <<";">>
                           \o to_string(color.b))

\* AnsiBuilder::add_color
add_color(sequences, color, is_background, color_system) ==
    LET downgraded == downgrade(color, color_system)
    IN  IF downgraded.kind = "Default"
        THEN Append(sequences, IF is_background THEN <<"4", "9">> ELSE <<"3", "9">>)
        ELSE IF downgraded.kind = "Standard"
        THEN Append(sequences, to_string(IF is_background THEN ansi_bg_code(downgraded.name)
                                         ELSE ansi_fg_code(downgraded.name)))
        ELSE IF downgraded.kind = "EightBit"
        THEN Append(sequences, (IF is_background THEN <<"4", "8", ";", "5", ";">>
                                ELSE <<"3", "8", ";", "5", ";">>) \o to_string(downgraded.index))
        ELSE Append(sequences, (IF is_background THEN <<"4", "8", ";", "2", ";">>
                                ELSE <<"3", "8", ";", "2", ";">>)
                               \o to_string(downgraded.r) \o <<";">>
                               \o to_string(downgraded.g) \o <<";">>
                               \o to_string(downgraded.b))

\* if let Some(value) = field { self.sequences.push(code) }
push_if_let(sequences, field, value, code) ==
    IF field = Some(value) THEN Append(sequences, code) ELSE sequences

\* a mutant of add_style: the codes of the attributes set to false are
\* pushed before the codes of the attributes set to true
add_style_off_first(sequences, style, color_system) ==
    LET s1 == IF is_some(style.color)
              THEN add_color(sequences, style.color[1], FALSE, color_system) ELSE sequences
        s2 == IF is_some(style.background)
              THEN add_color(s1, style.background[1], TRUE, color_system) ELSE s1
        f1 == push_if_let(s2, style.bold, FALSE, <<"2", "2">>)
        f2 == push_if_let(f1, style.dim, FALSE, <<"2", "2">>)
        f3 == push_if_let(f2, style.italic, FALSE, <<"2", "3">>)
        f4 == push_if_let(f3, style.underline, FALSE, <<"2", "4">>)
        f5 == push_if_let(f4, style.blink, FALSE, <<"2", "5">>)
        f6 == push_if_let(f5, style.reverse, FALSE, <<"2", "7">>)
        f7 == push_if_let(f6, style.hidden, FALSE, <<"2", "8">>)
        f8 == push_if_let(f7, style.strikethrough, FALSE, <<"2", "9">>)
        t1 == push_if_let(f8, style.bold, TRUE, <<"1">>)
        t2 == push_if_let(t1, style.dim, TRUE, <<"2">>)
        t3 == push_if_let(t2, style.italic, TRUE, <<"3">>)
        t4 == push_if_let(t3, style.underline, TRUE, <<"4">>)
        t5 == push_if_let(t4, style.blink, TRUE, <<"5">>)
        t6 == push_if_let(t5, style.reverse, TRUE, <<"7">>)
        t7 == push_if_let(t6, style.hidden, TRUE, <<"8">>)
    IN  push_if_let(t7, style.strikethrough, TRUE, <<"9">>)

\* AnsiBuilder::add_style
add_style(sequences, style, color_system) ==
    LET s1 == IF is_some(style.color)
              THEN add_color(sequences, style.color[1], FALSE, color_system) ELSE sequences
        s2 == IF is_some(style.background)
              THEN add_color(s1, style.background[1], TRUE, color_system) ELSE s1
        t1 == push_if_let(s2, style.bold, TRUE, <<"1">>)
        t2 == push_if_let(t1, style.dim, TRUE, <<"2">>)
        t3 == push_if_let(t2, style.italic, TRUE, <<"3">>)
        t4 == push_if_let(t3, style.underline, TRUE, <<"4">>)
        t5 == push_if_let(t4, style.blink, TRUE, <<"5">>)
        t6 == push_if_let(t5, style.reverse, TRUE, <<"7">>)
        t7 == push_if_let(t6, style.hidden, TRUE, <<"8">>)
        t8 == push_if_let(t7, style.strikethrough, TRUE, <<"9">>)
        f1 == push_if_let(t8, style.bold, FALSE, <<"2", "2">>)
        f2 == push_if_let(f1, style.dim, FALSE, <<"2", "2">>)
        f3 == push_if_let(f2, style.italic, FALSE, <<"2", "3">>)
        f4 == push_if_let(f3, style.underline, FALSE, <<"2", "4">>)
        f5 == push_if_let(f4, style.blink, FALSE, <<"2", "5">>)
        f6 == push_if_let(f5, style.reverse, FALSE, <<"2", "7">>)
        f7 == push_if_let(f6, style.hidden, FALSE, <<"2", "8">>)
    IN  push_if_let(f7, style.strikethrough, FALSE, <<"2", "9">>)

\* [String]::join
RECURSIVE join(_, _)
join(strings, sep) ==
    IF strings = <<>> THEN <<>>
    ELSE IF Len(strings) = 1 THEN strings[1]
    ELSE strings[1] \o sep \o join(Tail(strings), sep)

\* AnsiBuilder::build
build(sequences) ==
    IF sequences = <<>> THEN <<>>
    ELSE <<ESC, "[">> \o join(sequences, <<";">>) \o <<"m">>

\* style_to_ansi
style_to_ansi(style, color_system) == build(add_style(<<>>, style, color_system))

\* colours of every variant, on both sides of the conversions of downgrade
AnsiColors ==
    {Color_Default, Color_Standard("Red"), Color_Standard("BrightBlue"),
     Color_EightBit(5), Color_EightBit(196), Color_rgb(255, 128, 64), Color_rgb(0, 0, 7)}

\* the styles of style_strategy: every combination of the eight attributes
\* with few colours, and every pair of colours with few attributes
AnsiStyles ==
    {[color |-> c, background |-> bg, bold |-> t[1], dim |-> t[2], italic |-> t[3],
      underline |-> t[4], blink |-> t[5], reverse |-> t[6], hidden |-> t[7],
      strikethrough |-> t[8]] :
        c \in {None, Some(Color_Standard("Red"))},
        bg \in {None, Some(Color_Default)},
        t \in [1..8 -> {None, Some(TRUE), Some(FALSE)}]}
    \cup
    {[Style_new EXCEPT !.color = c, !.background = bg, !.bold = bo, !.dim = di] :
        c \in {None} \cup {Some(x) : x \in AnsiColors},
        bg \in {None} \cup {Some(x) : x \in AnsiColors},
        bo \in {None, Some(TRUE), Some(FALSE)},
        di \in {None, Some(TRUE), Some(FALSE)}}

InitAnsiStyle ==
    /\ input \in [style : AnsiStyles, color_system : ColorSystems]
    /\ output = None
    /\ idleText /\ idleStyle /\ idleMarkup

\* the call of the test ansi_generation_wellformed, for any colour system
StyleToAnsi ==
    /\ output = None
    /\ output' = Some(style_to_ansi(input.style, input.color_system))
    /\ UNCHANGED <<input, textVars, styleVars, markupVars>>

NextAnsiStyle == StyleToAnsi

SpecAnsiStyle == InitAnsiStyle /\ [][NextAnsiStyle]_vars

\* the attributes in the order of their codes, each with the code that
\* sets it and the code that clears it
AttributeCodes ==
    << <<"bold", 1, 22>>, <<"dim", 2, 22>>, <<"italic", 3, 23>>,
       <<"underline", 4, 24>>, <<"blink", 5, 25>>, <<"reverse", 7, 27>>,
       <<"hidden", 8, 28>>, <<"strikethrough", 9, 29>> >>

\* the numbers that select a colour as foreground (base 30) or background
\* (base 40)
ColorCode(color, base) ==
    IF color.kind = "Default" THEN <<base + 9>>
    ELSE IF color.kind = "Standard"
    THEN LET i == CHOOSE k \in DOMAIN StandardColors : StandardColors[k] = color.name
         IN  IF i <= 8 THEN <<base + i - 1>> ELSE <<base + 60 + i - 9>>
    ELSE IF color.kind = "EightBit" THEN <<base + 8, 5, color.index>>
    ELSE <<base + 8, 2, color.r, color.g, color.b>>

\* the numbers of the sequence the claim describes
ExpectedCodes(style, color_system) ==
    LET on == SelectSeq(AttributeCodes, LAMBDA a : style[a[1]] = Some(TRUE))
        off == SelectSeq(AttributeCodes, LAMBDA a : style[a[1]] = Some(FALSE))
    IN  (IF is_some(style.color)
         THEN ColorCode(downgrade(style.color[1], color_system), 30) ELSE <<>>)
        \o (IF is_some(style.background)
            THEN ColorCode(downgrade(style.background[1], color_system), 40) ELSE <<>>)
        \o [i \in 1..Len(on) |-> on[i][2]]
        \o [i \in 1..Len(off) |-> off[i][3]]

\* C22: style_to_ansi returns the empty string exactly for the style that
\* sets no field; otherwise ESC [ p1;..;pn m with the code of the
\* downgraded foreground colour, the code of the downgraded background
\* colour, the codes 1,2,3,4,5,7,8,9 of the attributes set to true and
\* then the codes 22,22,23,24,25,27,28,29 of those set to false
C22_StyleToAnsiParameters ==
    is_some(output) =>
        LET codes == ExpectedCodes(input.style, input.color_system)
        IN  /\ (output[1] = <<>>) <=> (input.style = Style_new)
            /\ input.style # Style_new =>
                   output[1] = <<ESC, "[">>
                               \o join([i \in 1..Len(codes) |-> to_string(codes[i])], <<";">>)
                               \o <<"m">>

\* the sequence of a style with a true colour that had to be downgraded,
\* an attribute set to true and an attribute set to false
C22_Witness ==
    /\ is_some(output) /\ output[1] # <<>>
    /\ is_some(input.style.color) /\ input.style.color[1].kind = "TrueColor"
    /\ input.color_system = "Standard"
    /\ input.style.bold = Some(TRUE)
    /\ input.style.dim = Some(FALSE)

\* ---------------------------------------------------------------------
\* Style::parse on strings of whole tokens

MaxTokens == 3

\* tokens of each case of Style::parse: attribute keywords, on, colour
\* names, a hex colour, a token of no meaning, and a token of 3 bytes with
\* a character of 2 bytes
StyleTokens ==
    {<<"b", "o", "l", "d">>, <<"d", "i", "m">>, <<"o", "n">>, <<"r", "e", "d">>, <<"b", "l", "u", "e">>, <<"#", "f", "0", "0">>, <<"z", "z">>, <<"0", "é">>}

\* the style strings of test_style_parse_complex, test_style_parse_hex and
\* test_style_parse_invalid: tokens separated by one space
StyleStrings(max) ==
    {join(toks, <<" ">>) : toks \in UNION {[1..n -> StyleTokens] : n \in 0..max}}

InitParse ==
    /\ input \in StyleStrings(MaxTokens)
    /\ output = None
    /\ idleText /\ idleStyle /\ idleMarkup

\* Style::parse(input)
StyleParse ==
    /\ output = None
    /\ output' = Some(Style_parse(input))
    /\ UNCHANGED <<input, textVars, styleVars, markupVars>>

NextParse == StyleParse

SpecParse == InitParse /\ [][NextParse]_vars

\* the token is one of the eight attribute keywords
IsKeyword(token) == \E i \in DOMAIN Keywords : Keywords[i].token = token

\* the token is a colour: a colour name, or an optional # and 3 or 6
\* hexadecimal digits
IsColorToken(token) ==
    \/ \E i \in DOMAIN ColorNames : ColorNames[i].token = token
    \/ HexLiteral(token)

\* the result the claim describes for the tokens from left to right; it
\* says nothing about an `on` followed by a token that is not a colour
RECURSIVE DescribedParse(_, _)
DescribedParse(style, toks) ==
    IF toks = <<>> THEN ResOk(style)
    ELSE IF IsKeyword(Head(toks))
    THEN LET field == Keywords[CHOOSE i \in DOMAIN Keywords :
                                   Keywords[i].token = Head(toks)].field
         IN  DescribedParse([style EXCEPT ![field] = Some(TRUE)], Tail(toks))
    ELSE IF Head(toks) = <<"o", "n">>
    THEN IF Len(toks) = 1 THEN ResErr("StyleError")
         ELSE IF IsColorToken(toks[2])
         THEN DescribedParse(
                  [style EXCEPT !.background = Some(parse_color_token(toks[2]).value)],
                  SubSeq(toks, 3, Len(toks)))
         ELSE ResErr("not described")
    ELSE IF IsColorToken(Head(toks))
    THEN DescribedParse(
             IF is_none(style.color)
             THEN [style EXCEPT !.color = Some(parse_color_token(Head(toks)).value)]
             ELSE style,
             Tail(toks))
    ELSE ResErr("StyleError")

\* C23: Style::parse takes the tokens from left to right: a keyword sets
\* its flag to true; `on` takes the next token as the background colour and
\* fails with StyleError when there is none; the first colour token sets
\* the foreground and a later one is ignored; a token that is neither a
\* keyword nor a colour makes parse fail with StyleError
C23_ParseTokenByToken ==
    is_some(output) =>
        LET described == DescribedParse(Style_new, split_whitespace(input))
        IN  described # ResErr("not described") => output[1] = described

\* ---------------------------------------------------------------------
\* segment.rs: Segment::split_at_char and Segment::split_at_width

MaxSegLen == 3
MaxSplitAt == 4

\* UnicodeWidthChar::width: a wide character takes 2 columns, a combining
\* mark none, a control character has no width
char_width(ch) ==
    IF ch = "U+4E2D" THEN Some(2)
    ELSE IF ch = "U+0301" THEN Some(0)
    ELSE IF ch = ESC THEN None
    ELSE Some(1)

\* Option::unwrap_or
unwrap_or(opt, default) == IF is_some(opt) THEN opt[1] ELSE default

\* UnicodeWidthStr::width: the sum of the widths of the characters
RECURSIVE str_width(_)
str_width(s) ==
    IF s = <<>> THEN 0 ELSE unwrap_or(char_width(Head(s)), 0) + str_width(Tail(s))

\* Segment::is_control
is_control(self) == is_some(self.control) /\ self.text = <<>>

\* Segment::is_text
is_text(self) == is_none(self.control) /\ self.text # <<>>

\* Segment::cell_length
cell_length(self) == IF is_control(self) THEN 0 ELSE str_width(self.text)

\* str::split_at, with a byte offset: the two parts of the string, or a
\* panic when the offset is not on a character boundary
split_at(s, mid) ==
    IF ~is_char_boundary(s, mid) THEN Panic
    ELSE LET k == CHOOSE k \in 0..Len(s) : byte_len(SubSeq(s, 1, k)) = mid
         IN  ResOk(<<SubSeq(s, 1, k), SubSeq(s, k + 1, Len(s))>>)

\* the two segments made of the two parts of the text of a segment
split_segment(self, mid) ==
    LET parts == split_at(self.text, mid)
    IN  IF ~parts.ok THEN Panic
        ELSE ResOk(<<[text |-> parts.value[1], style |-> self.style, control |-> self.control],
                     [text |-> parts.value[2], style |-> self.style, control |-> None]>>)

\* the loop of split_at_char over char_indices, from the character of
\* number k on: byte_pos and char_count when the loop is left
RECURSIVE find_byte_pos(_, _, _, _)
find_byte_pos(t, pos, k, char_count) ==
    IF k > Len(t) THEN [byte_pos |-> 0, char_count |-> char_count]
    ELSE IF char_count = pos
    THEN [byte_pos |-> byte_len(SubSeq(t, 1, k - 1)), char_count |-> char_count]
    ELSE find_byte_pos(t, pos, k + 1, char_count + 1)

\* Segment::split_at_char
split_at_char(self, pos) ==
    IF pos >= byte_len(self.text)
    THEN ResOk(<<self, Segment_new(<<>>, Style_new)>>)
    ELSE IF is_control(self)
    THEN ResOk(<<self, Segment_new(<<>>, Style_new)>>)
    ELSE LET found == find_byte_pos(self.text, pos, 1, 0)
         IN  IF found.char_count = pos
             THEN split_segment(self, found.byte_pos)
             ELSE ResOk(<<self, Segment_new(<<>>, Style_new)>>)

\* a mutant of the loop of split_at_width: a character that reaches the
\* width exactly is not taken
RECURSIVE find_split_pos_below(_, _, _, _, _)
find_split_pos_below(t, max_width, k, current_width, split_pos) ==
    IF k > Len(t) THEN split_pos
    ELSE LET cw == unwrap_or(char_width(t[k]), 0)
         IN  IF current_width + cw >= max_width THEN split_pos
             ELSE find_split_pos_below(t, max_width, k + 1, current_width + cw,
                                       byte_len(SubSeq(t, 1, k - 1)) + len_utf8(t[k]))

\* the loop of split_at_width over char_indices, from the character of
\* number k on: split_pos when the loop is left
RECURSIVE find_split_pos(_, _, _, _, _)
find_split_pos(t, max_width, k, current_width, split_pos) ==
    IF k > Len(t) THEN split_pos
    ELSE LET cw == unwrap_or(char_width(t[k]), 0)
         IN  IF current_width + cw > max_width THEN split_pos
             ELSE find_split_pos(t, max_width, k + 1, current_width + cw,
                                 byte_len(SubSeq(t, 1, k - 1)) + len_utf8(t[k]))

\* a mutant of split_at_width, with the loop find_split_pos_below
split_at_width_below(self, max_width) ==
    IF is_control(self) THEN ResOk(<<self, Segment_new(<<>>, Style_new)>>)
    ELSE LET split_pos == find_split_pos_below(self.text, max_width, 1, 0, 0)
         IN  IF split_pos = 0
             THEN ResOk(<<Segment_new(<<>>, self.style), self>>)
             ELSE IF split_pos >= byte_len(self.text)
             THEN ResOk(<<self, Segment_new(<<>>, Style_new)>>)
             ELSE split_segment(self, split_pos)

\* Segment::split_at_width
split_at_width(self, max_width) ==
    IF is_control(self) THEN ResOk(<<self, Segment_new(<<>>, Style_new)>>)
    ELSE LET split_pos == find_split_pos(self.text, max_width, 1, 0, 0)
         IN  IF split_pos = 0
             THEN ResOk(<<Segment_new(<<>>, self.style), self>>)
             ELSE IF split_pos >= byte_len(self.text)
             THEN ResOk(<<self, Segment_new(<<>>, Style_new)>>)
             ELSE split_segment(self, split_pos)

\* characters of each width and each length in bytes
SegmentChars == {"a", "é", "U+4E2D", "U+0301", ESC}

\* the segments of segment_splitting_preserves_content, and the segments
\* with a control code
Segments(max) ==
    {[text |-> t, style |-> st, control |-> c] :
        t \in UNION {[1..n -> SegmentChars] : n \in 0..max},
        st \in {Style_new, StyleBoldRed},
        c \in {None, Some("Bell")}}

InitSegment ==
    /\ input \in [segment : Segments(MaxSegLen), at : 0..MaxSplitAt]
    /\ output = None
    /\ idleText /\ idleStyle /\ idleMarkup

\* segment.split_at_char(at)
SplitAtChar ==
    /\ output = None
    /\ output' = Some([op |-> "split_at_char",
                       result |-> split_at_char(input.segment, input.at)])
    /\ UNCHANGED <<input, textVars, styleVars, markupVars>>

\* segment.split_at_width(at)
SplitAtWidth ==
    /\ output = None
    /\ output' = Some([op |-> "split_at_width",
                       result |-> split_at_width(input.segment, input.at)])
    /\ UNCHANGED <<input, textVars, styleVars, markupVars>>

NextSegment ==
    \/ SplitAtChar
    \/ SplitAtWidth

SpecSegment == InitSegment /\ [][NextSegment]_vars

\* the operation op has been applied to a text segment
SplitDone(op) ==
    is_some(output) /\ output[1].op = op /\ is_text(input.segment)

\* the number of characters of the longest prefix of t that is not wider
\* than w
LongestFit(t, w) ==
    CHOOSE k \in 0..Len(t) :
        /\ str_width(SubSeq(t, 1, k)) <= w
        /\ \A j \in (k + 1)..Len(t) : str_width(SubSeq(t, 1, j)) > w

\* C24: split_at_width(w) of a text segment returns (left, right) with left
\* not wider than w, left.text followed by right.text the text of the
\* segment, and left.text the longest prefix of whole characters that is
\* not wider than w
C24_SplitAtWidthLongestFit ==
    SplitDone("split_at_width") =>
        /\ output[1].result.ok
        /\ LET left == output[1].result.value[1]
               right == output[1].result.value[2]
           IN  /\ cell_length(left) <= input.at
               /\ left.text \o right.text = input.segment.text
               /\ left.text = SubSeq(input.segment.text, 1,
                                     LongestFit(input.segment.text, input.at))

\* a segment has been split in front of a wide character that would have
\* gone across the width, the left part one column short of the width
C24_Witness ==
    /\ SplitDone("split_at_width")
    /\ output[1].result.ok
    /\ output[1].result.value[1].text # <<>>
    /\ output[1].result.value[2].text # <<>>
    /\ Head(output[1].result.value[2].text) = "U+4E2D"
    /\ cell_length(output[1].result.value[1]) = input.at - 1

\* C25: split_at_char(pos) of a text segment returns (left, right) with
\* left.text followed by right.text the text of the segment and left.text
\* its first min(pos, number of characters) characters; with pos at or past
\* the end it returns the segment itself and an empty segment
C25_SplitAtCharCountsCharacters ==
    SplitDone("split_at_char") =>
        /\ output[1].result.ok
        /\ LET left == output[1].result.value[1]
               right == output[1].result.value[2]
               n == chars_count(input.segment.text)
           IN  /\ left.text \o right.text = input.segment.text
               /\ left.text = SubSeq(input.segment.text, 1, Min(input.at, n))
               /\ input.at >= n =>
                      /\ left = input.segment
                      /\ right = Segment_new(<<>>, Style_new)

\* ---------------------------------------------------------------------
\* to_segments: the segments it returns

\* every segment of segs has text and no control code
AllTextSegments(segs) ==
    \A i \in DOMAIN segs : segs[i].text # <<>> /\ is_none(segs[i].control)

\* C26 as stated: to_segments never returns a segment without characters:
\* for every Text, also one with empty content, every segment has
\* non-empty text and no control code
C26_NoEmptySegment == AllTextSegments(to_segments(text))

\* C26, amended: for a Text with content every segment of to_segments has
\* non-empty text and no control code; for a Text with empty content
\* to_segments returns one segment, with empty text, the base style and no
\* control code
C26_NoEmptySegmentOfContent ==
    IF text.content = <<>>
    THEN to_segments(text) = <<Segment_new(<<>>, text.base_style)>>
    ELSE AllTextSegments(to_segments(text))

\* a Text whose spans end at the end of its content, so that no text is
\* left behind the last event
C26_Witness ==
    /\ text.content # <<>>
    /\ Len(text.spans) = 2
    /\ \E i \in DOMAIN text.spans : text.spans[i].end = Len(text.content)
    /\ Len(to_segments(text)) >= 2

\* ---------------------------------------------------------------------
\* from_markup and to_segments: which tag wins

\* the pieces are tags, [/] and ASCII text
TagsAndText(seq) ==
    /\ AsciiOnly(seq)
    /\ \A i \in DOMAIN seq :
          seq[i].kind \in {"open", "close", "text"} \/ seq[i].chars = <<"[", "/", "]">>

\* the number of the open tag a closing piece closes: the nearest one of
\* its name, the top one for [/]; 0 when there is none
ClosedFrom(open, it) ==
    IF it.kind = "raw" THEN Len(open)
    ELSE IF \E i \in DOMAIN open : open[i] = it.name
    THEN CHOOSE i \in DOMAIN open :
             open[i] = it.name /\ \A j \in (i + 1)..Len(open) : open[j] # it.name
    ELSE 0

RECURSIVE OpenTagsAt(_, _)
\* for every character of the plain text of the pieces, the names of the
\* tags open at the character, in the order in which they were opened
OpenTagsAt(seq, open) ==
    IF seq = <<>> THEN <<>>
    ELSE LET it == Head(seq)
         IN  IF it.kind = "text"
             THEN [k \in 1..Len(it.chars) |-> open] \o OpenTagsAt(Tail(seq), open)
             ELSE IF it.kind = "open"
             THEN OpenTagsAt(Tail(seq), Append(open, it.name))
             ELSE LET i == ClosedFrom(open, it)
                  IN  OpenTagsAt(Tail(seq), IF i = 0 THEN open ELSE SubSeq(open, 1, i - 1))

\* the value the tags of names give the field: the one of the most recently
\* opened tag that sets the field, None when no tag sets it
InnermostValue(names, field) ==
    LET setting == {i \in DOMAIN names : is_some(Style_parse(names[i]).value[field])}
    IN  IF setting = {} THEN None
        ELSE Style_parse(names[CHOOSE i \in setting : \A j \in setting : j <= i]).value[field]

\* from_markup has returned a Text for markup of tags, [/] and ASCII text
RenderedTags ==
    /\ pc = "done" /\ TagsAndText(items)
    /\ is_some(result) /\ result[1].ok

\* C27: for a Text built by from_markup, every attribute of every character
\* has in to_segments the value of the most recently opened tag that sets
\* it among the tags open at the character, however the tags were closed
\* and also when the tags were opened at the same text position
C27_InnerTagWins ==
    RenderedTags =>
        LET styles == CharStyles(to_segments(result[1].value))
            open == OpenTagsAt(items, <<>>)
        IN  /\ Len(styles) = Len(open)
            /\ \A p \in DOMAIN open : \A f \in StyleFields :
                  styles[p][f] = InnermostValue(open[p], f)

\* ---------------------------------------------------------------------
\* rgb_to_eight_bit on the colours of the palette

\* C28: rgb_to_eight_bit inverts the palette formula on the colours of the
\* palette: a true colour with the RGB value of an index in 16..255,
\* downgraded to the 8-bit system, gets an index with that same RGB value
C28_PaletteRoundTrip ==
    (is_some(output) /\ input.color_system = "EightBit" /\ input.color \in PaletteColors) =>
        /\ output[1].downgraded.kind = "EightBit"
        /\ eight_bit_to_rgb(output[1].downgraded.index)
               = <<input.color.r, input.color.g, input.color.b>>

\* ---------------------------------------------------------------------
\* escape and from_markup

\* from_markup has ended for the markup escape wrote for a plain string
EscapedDone ==
    /\ pc \in {"done", "panic"}
    /\ Len(items) = 1 /\ items[1].kind = "escaped"

\* C29: escape makes a plain string safe for the parser: from_markup of
\* escape(t) succeeds with a Text whose content is t and that has no spans,
\* also when t has [ or ]
C29_EscapeRoundTrip ==
    EscapedDone =>
        /\ pc = "done" /\ is_some(result) /\ result[1].ok
        /\ result[1].value.content = items[1].name
        /\ result[1].value.spans = <<>>

\* ---------------------------------------------------------------------
\* to_segments: where the segments meet

\* the positions at which two consecutive segments meet
SegmentBoundaries(segs) ==
    {Len(SegmentsText(SubSeq(segs, 1, k))) : k \in 1..(Len(segs) - 1)}

\* the positions inside the content at which a span starts or ends
SpanBoundaries(t) ==
    {p \in 1..(Len(t.content) - 1) :
        \E i \in DOMAIN t.spans : t.spans[i].start = p \/ t.spans[i].end = p}

\* C30 as stated: every segment of to_segments is a maximal run of one
\* style: no two consecutive segments have equal styles
C30_MaximalRuns ==
    LET segs == to_segments(text)
    IN  \A i \in 1..(Len(segs) - 1) : segs[i].style # segs[i + 1].style

\* C30, amended: every segment of to_segments is the run of characters
\* between two consecutive positions at which a span starts or ends (or the
\* start or the end of the content): the segments meet at exactly these
\* positions, whether or not the styles on the two sides are equal
C30_RunsBetweenSpanBoundaries ==
    LET segs == to_segments(text)
    IN  /\ SegmentBoundaries(segs) = SpanBoundaries(text)
        /\ Len(segs) = Cardinality(SpanBoundaries(text)) + 1

\* two spans of the same style, one ending where the other starts, give
\* two consecutive segments of equal style
C30_Witness ==
    LET segs == to_segments(text)
    IN  /\ \E i, j \in DOMAIN text.spans :
              /\ text.spans[i].end = text.spans[j].start
              /\ text.spans[i].start < text.spans[i].end
              /\ text.spans[j].start < text.spans[j].end
              /\ text.spans[i].style = text.spans[j].style
        /\ \E k \in 1..(Len(segs) - 1) : segs[k].style = segs[k + 1].style

====
